---- MODULE Spec2Model ----
(***************************************************************************)
(* State-machine model of the document ingest worker, the ingest pipeline, *)
(* the document/zotero HTTP handlers, the startup reconciliation with the  *)
(* vector store and the /query/stream controller of the RAG backend.       *)
(*                                                                         *)
(* Modelling decisions                                                     *)
(*  - The relational store is reliable: a commit succeeds.  A statement on *)
(*    a row that another session deleted fails (refresh raises, a re-fetch *)
(*    returns None).                                                       *)
(*  - Text extraction, chunking, the vector store and the LLM are external *)
(*    collaborators: each call may succeed or raise.                       *)
(*  - process_documents runs in an executor thread; HTTP handlers and the  *)
(*    worker's asyncio task run on the event loop.  One action is one step *)
(*    between two points at which the other side can observe the state.    *)
(***************************************************************************)
EXTENDS Integers, Sequences, FiniteSets, TLC

\* ---------------------------------------------------------------- bounds
MaxDocs == 2        \* document rows ever inserted (ids 1..MaxDocs)
MaxNames == 1       \* distinct filenames
MaxChunks == 1      \* chunks the chunker emits for one document
MaxThreads == 2     \* executor threads available to run process_documents
MaxChats == 1       \* chat rows ever inserted
MaxRequests == 2    \* /query/stream requests that start a stream
MaxSteps == 2       \* thinking steps one retrieval emits
MaxContexts == 1    \* contexts one retrieval returns
MaxTokens == 2      \* tokens one answer stream yields
MaxItems == 2       \* attachment items in the Zotero library
MaxOthers == 1      \* collections on the vector store without the prefix

Ids == 1..MaxDocs
Names == 1..MaxNames
Threads == 1..MaxThreads
NoDoc == 0

\* ---------------------------------------------------------------- state
VARIABLES
  documents,        \* table documents: id -> row (DOMAIN = existing rows)
  next_id,          \* next primary key of table documents
  files,            \* source files on disk: set of <<dir, filename>>
  side_store,       \* ids d for which the side-store file doc_<d>.pkl exists
  collections,      \* vector store: id d -> number of points of doc_<d>
  processing_status,            \* process-wide status map: id -> entry
  currently_processing_doc_id,  \* process-wide marker (NoDoc = None)
  app,              \* "down" | "up" | "stopping"
  running,          \* DocumentProcessingWorker.running
  has_event,        \* DocumentProcessingWorker._check_event is not None
  event_set,        \* asyncio.Event flag of _check_event
  loop_stuck,       \* the flag was set from a foreign thread while the task
                    \* slept and the event loop has not been woken since
  task_pc,          \* position of the _processing_loop task
  task_thread,      \* executor thread the task awaits
  thr,              \* executor threads: t -> [pc, doc, n, path]
  terminal,         \* history: ids that were marked num_chunks = -1
  trigger_pending,  \* history: a trigger_check was accepted and no pass
                    \* has been started since
  stopped_during,   \* history: thread t -> doc in the pipeline when stop()
                    \* was called (NoDoc if none)
  chats,            \* table chats: set of ids
  messages,         \* table messages: sequence of rows in insertion order
  variant,          \* module serving the request: "api.chat" | "main"
  http_status,      \* status of the last POST /query/stream (0 = none yet)
  req_count,        \* history: POST /query/stream requests received
  req_chat,         \* chat_id of the last POST /query/stream (0 = none yet)
  ret_pc,           \* position of the retrieval thread (run_retrieval)
  produced,         \* thinking steps passed to on_thinking so far
  thinking_queue,   \* queue.Queue between retrieval thread and generator
  retrieval_done,   \* threading.Event retrieval_done
  retrieval_result, \* the shared result slot
  gen_pc,           \* position of event_generator
  tokens,           \* tokens yielded by generate_answer_stream so far
  accumulated_answer, \* event_generator: the local accumulated_answer
  sse,              \* events written to the response, in order
  library,          \* the Zotero library: set of attachment items
  last_sync,        \* history: the last call of the sync service
  poller_log,       \* history: the last tick of the Zotero poller
  delete_log,       \* history: the last DELETE /documents/{id} request
  reprocess_log,    \* history: per document, the row before its first
                    \* reprocess and the number of reprocess requests
  other_collections,  \* vector store: the collections not named doc_...
  startup_log,      \* history: the last startup reconciliation
  listing,          \* history: the last response of GET /documents
  session_threads,   \* history: the threads that used the database session
                    \* of the current /query/stream request
  query_expansion_cache,  \* RAGService.query_expansion_cache: the entries [key, value, expires], oldest first
  clock,  \* the clock of the cache (time.monotonic), in ticks
  last_expansion,  \* history: the last call of generate_query_variations
  hash_seed,  \* the interpreter's string hash (token -> hash value), drawn at start
  sparse_point,  \* vector store: the last sparse vector written by add_documents
  sparse_query,  \* history: the last sparse vector computed by search
  rerank_log,  \* history: the last call of RerankerService.rerank
  process_log,  \* history: the last call of DocumentProcessor.process_document
  pending_log,  \* history: the last run of the pending query of a worker
  mq,  \* the running call of multi_query_retrieve_and_rerank: its locals and the thinking steps emitted
  parent_log,  \* history: the last call of _load_parents_from_chunks
  worker_loop,  \* DocumentProcessingWorker: running, the position of _processing_loop and its event
  poller_loop,  \* ZoteroPoller: running and the position of _poll_loop
  worker_pass,  \* a worker, the documents table and the position of its process_documents pass
  sync_run  \* the sync call running in a handler of api/zotero.py: position, items left, current item and the row its query found

dbVars == <<documents, next_id>>
diskVars == <<files, side_store, collections>>
obsVars == <<processing_status, currently_processing_doc_id>>
workerVars == <<running, has_event, event_set, loop_stuck, task_pc, task_thread>>
histVars == <<terminal, trigger_pending, stopped_during>>
ingestVars == <<dbVars, diskVars, obsVars, app, workerVars, thr, histVars>>
chatVars == <<chats, messages, variant, http_status, req_count, req_chat,
              ret_pc, produced, thinking_queue, retrieval_done,
              retrieval_result, gen_pc, tokens,
              accumulated_answer, sse>>

zoteroVars == <<library, last_sync, poller_log>>
deleteVars == <<delete_log>>
reprocessVars == <<reprocess_log>>
startupVars == <<other_collections, startup_log>>
listVars == <<listing>>
sessionVars == <<session_threads>>
\* the variables of the retrieval components
expandVars == <<query_expansion_cache, clock, last_expansion>>
sparseVars == <<hash_seed, sparse_point, sparse_query>>
rerankVars == <<rerank_log>>
chunkVars == <<process_log>>
pendingVars == <<pending_log>>
multiVars == <<mq>>
loadVars == <<parent_log>>
loopsVars == <<worker_loop, poller_loop>>
passVars == <<worker_pass>>
syncrunVars == <<sync_run>>
pureVars == <<expandVars, sparseVars, rerankVars, chunkVars, pendingVars, multiVars, loadVars, loopsVars, passVars, syncrunVars>>
auxVars == <<zoteroVars, deleteVars, reprocessVars, startupVars, listVars,
             sessionVars, pureVars>>
coreVars == <<ingestVars, chatVars, zoteroVars, deleteVars, reprocessVars,
              startupVars, listVars, sessionVars>>
notExpandVars == <<coreVars, sparseVars, rerankVars, chunkVars, pendingVars, multiVars, loadVars, loopsVars, passVars, syncrunVars>>
notSparseVars == <<coreVars, expandVars, rerankVars, chunkVars, pendingVars, multiVars, loadVars, loopsVars, passVars, syncrunVars>>
notRerankVars == <<coreVars, expandVars, sparseVars, chunkVars, pendingVars, multiVars, loadVars, loopsVars, passVars, syncrunVars>>
notChunkVars == <<coreVars, expandVars, sparseVars, rerankVars, pendingVars, multiVars, loadVars, loopsVars, passVars, syncrunVars>>
notPendingVars == <<coreVars, expandVars, sparseVars, rerankVars, chunkVars, multiVars, loadVars, loopsVars, passVars, syncrunVars>>
notMultiVars == <<coreVars, expandVars, sparseVars, rerankVars, chunkVars, pendingVars, loadVars, loopsVars, passVars, syncrunVars>>
notLoadVars == <<coreVars, expandVars, sparseVars, rerankVars, chunkVars, pendingVars, multiVars, loopsVars, passVars, syncrunVars>>
notLoopsVars == <<coreVars, expandVars, sparseVars, rerankVars, chunkVars, pendingVars, multiVars, loadVars, passVars, syncrunVars>>
notPassVars == <<coreVars, expandVars, sparseVars, rerankVars, chunkVars, pendingVars, multiVars, loadVars, loopsVars, syncrunVars>>
notSyncrunVars == <<coreVars, expandVars, sparseVars, rerankVars, chunkVars, pendingVars, multiVars, loadVars, loopsVars, passVars>>

\* the auxiliary variables outside one group
notZoteroVars == <<deleteVars, reprocessVars, startupVars, listVars,
                   sessionVars, pureVars>>
notDeleteVars == <<zoteroVars, reprocessVars, startupVars, listVars,
                   sessionVars, pureVars>>
notReprocessVars == <<zoteroVars, deleteVars, startupVars, listVars,
                      sessionVars, pureVars>>
notStartupVars == <<zoteroVars, deleteVars, reprocessVars, listVars,
                    sessionVars, pureVars>>
notListVars == <<zoteroVars, deleteVars, reprocessVars, startupVars,
                 sessionVars, pureVars>>
notSessionVars == <<zoteroVars, deleteVars, reprocessVars, startupVars,
                    listVars, pureVars>>

\* ---------------------------------------------------------------- helpers
Put(f, k, v) == [x \in (DOMAIN f) \cup {k} |-> IF x = k THEN v ELSE f[x]]
Remove(f, k) == [x \in (DOMAIN f) \ {k} |-> f[x]]
EmptyMap == [x \in {} |-> 0]

\* persistence/models.py: a new Document row
NewDocument(name, dir) ==
  [filename |-> name, dir |-> dir, pickle_path |-> FALSE,
   processed |-> FALSE, num_chunks |-> 0, query_enabled |-> TRUE]

file_path(d) == <<documents[d].dir, documents[d].filename>>

\* vector_store.collection_exists / document_exists
collection_exists(d) == d \in DOMAIN collections
document_exists(d) == collection_exists(d) /\ collections[d] > 0

\* pipeline.py:35-36 `if 'main' in sys.modules: from main import
\* processing_status`: the application module main is loaded and defines the
\* process-wide status map (spec.md, "Processing-status entry": created and
\* updated by the pipeline)
main_exposes_processing_status == TRUE

\* pipeline.py:32-47 _report_progress: processing_status[doc_id] = {...};
\* without the map the report is only logged.  progress is in percent.
report_progress(ps, d, stage, progress) ==
  IF main_exposes_processing_status
    THEN Put(ps, d, [stage |-> stage, progress |-> progress])
    ELSE ps

\* the failure mark without the sentinel: num_chunks keeps its value
mark_failed_keep_chunks(row) == [row EXCEPT !.processed = TRUE]

\* worker.py:229-231 and 250-252: document.processed = True,
\* document.num_chunks = -1
mark_failed(row) == [row EXCEPT !.processed = TRUE, !.num_chunks = -1]

PipelinePcs == {"extraction", "chunking", "reset", "add", "finalizing"}
NoPath == <<"", 0>>
IdleThread == [pc |-> "idle", doc |-> NoDoc, n |-> 0, path |-> NoPath]

\* worker.py:128-131 the pending query.  `Document.num_chunks is None` is a
\* Python identity test on the column object (False), so the filter is
\* processed == False AND num_chunks >= 0.
Pending == {d \in DOMAIN documents :
              documents[d].processed = FALSE /\ documents[d].num_chunks >= 0}

\* ---------------------------------------------------------------- Init
NoResult == [contexts |-> 0, error |-> FALSE]

ChatInit ==
  /\ chats = {}
  /\ messages = <<>>
  /\ variant = "api.chat"
  /\ http_status = 0
  /\ req_count = 0
  /\ req_chat = 0
  /\ ret_pc = "none"
  /\ produced = 0
  /\ thinking_queue = <<>>
  /\ retrieval_done = FALSE
  /\ retrieval_result = NoResult
  /\ gen_pc = "none"
  /\ tokens = 0
  /\ accumulated_answer = <<>>
  /\ sse = <<>>

NoSync == [mode |-> "none"]
NoTick == [new_count |-> 0, auto_sync |-> FALSE, sync_called |-> FALSE,
           triggered |-> FALSE]

NoDelete == [status |-> "none"]
NoStartup == [done |-> FALSE]
NoListing == [seq |-> 0, flags |-> EmptyMap]
NoExpansion == [query |-> "", result |-> <<>>, llm_calls |-> 0, cached_at |-> 0,
                seq |-> 0]
NoProcess == <<>>
NoVector == [text |-> <<>>, vector |-> <<>>, seq |-> 0]
NoRerank == [seq |-> 0, scores |-> <<>>, top_k |-> 0, apply_threshold |-> FALSE,
             result |-> <<>>]
NoProcessing == [seq |-> 0, parent_docs |-> <<>>, children |-> <<>>,
                 metadata_chunk |-> <<>>, write_ok |-> FALSE,
                 persisted |-> <<>>, chunks |-> <<>>]
NoPendingQuery == [seq |-> 0, worker |-> "", rows |-> EmptyMap, matching |-> {},
                   first |-> 0]
NoRetrieval ==
  [pc |-> "idle", map_empty |-> FALSE, store |-> {}, hits |-> <<>>,
   events |-> <<>>, searches |-> <<>>, seen |-> {}, accumulated |-> <<>>,
   r1 |-> 0, r2 |-> 0, rerank_input |-> <<>>, llm_failed |-> {},
   ranking |-> 0, llm_calls |-> 0]
StoppedWorkerLoop == [running |-> FALSE, pc |-> "none", event_set |-> FALSE,
                      failed |-> FALSE, errors |-> 0]
StoppedPollerLoop == [running |-> FALSE, pc |-> "none", failed |-> FALSE,
                      errors |-> 0]
NoPass == [worker |-> "", rows |-> EmptyMap, files |-> {}, readable |-> {},
           pc |-> "sleeping", batch |-> <<>>, doc |-> 0]
\* no sync call has run in a handler yet
NoItem == [key |-> 0, name |-> 0]
NoSyncRun == [pc |-> "idle", mode |-> "none", items |-> {}, item |-> NoItem,
              existing |-> 0, synced |-> 0]
NoParentLoad == [seq |-> 0, chunks |-> <<>>, pickles |-> <<>>,
                 enable_neighbor_expansion |-> FALSE,
                 base |-> <<>>, final |-> <<>>, contexts |-> <<>>,
                 sources |-> <<>>]
\* the retrieval components before their first call
ExpandInit ==
  /\ query_expansion_cache = <<>>
  /\ clock = 0
  /\ last_expansion = NoExpansion
SparseInit ==
  /\ hash_seed = NoProcess
  /\ sparse_point = NoVector
  /\ sparse_query = NoVector
RerankInit ==
  /\ rerank_log = NoRerank
ChunkInit ==
  /\ process_log = NoProcessing
PendingInit ==
  /\ pending_log = NoPendingQuery
MultiInit ==
  /\ mq = NoRetrieval
LoadInit ==
  /\ parent_log = NoParentLoad
LoopsInit ==
  /\ worker_loop = StoppedWorkerLoop
  /\ poller_loop = StoppedPollerLoop
PassInit ==
  /\ worker_pass = NoPass
SyncrunInit ==
  /\ sync_run = NoSyncRun
PureInit ==
  /\ ExpandInit
  /\ SparseInit
  /\ RerankInit
  /\ ChunkInit
  /\ PendingInit
  /\ MultiInit
  /\ LoadInit
  /\ LoopsInit
  /\ PassInit
  /\ SyncrunInit
NotExpandInit ==
  /\ SparseInit
  /\ RerankInit
  /\ ChunkInit
  /\ PendingInit
  /\ MultiInit
  /\ LoadInit
  /\ LoopsInit
  /\ PassInit
  /\ SyncrunInit
NotSparseInit ==
  /\ ExpandInit
  /\ RerankInit
  /\ ChunkInit
  /\ PendingInit
  /\ MultiInit
  /\ LoadInit
  /\ LoopsInit
  /\ PassInit
  /\ SyncrunInit
NotRerankInit ==
  /\ ExpandInit
  /\ SparseInit
  /\ ChunkInit
  /\ PendingInit
  /\ MultiInit
  /\ LoadInit
  /\ LoopsInit
  /\ PassInit
  /\ SyncrunInit
NotChunkInit ==
  /\ ExpandInit
  /\ SparseInit
  /\ RerankInit
  /\ PendingInit
  /\ MultiInit
  /\ LoadInit
  /\ LoopsInit
  /\ PassInit
  /\ SyncrunInit
NotPendingInit ==
  /\ ExpandInit
  /\ SparseInit
  /\ RerankInit
  /\ ChunkInit
  /\ MultiInit
  /\ LoadInit
  /\ LoopsInit
  /\ PassInit
  /\ SyncrunInit
NotMultiInit ==
  /\ ExpandInit
  /\ SparseInit
  /\ RerankInit
  /\ ChunkInit
  /\ PendingInit
  /\ LoadInit
  /\ LoopsInit
  /\ PassInit
  /\ SyncrunInit
NotLoadInit ==
  /\ ExpandInit
  /\ SparseInit
  /\ RerankInit
  /\ ChunkInit
  /\ PendingInit
  /\ MultiInit
  /\ LoopsInit
  /\ PassInit
  /\ SyncrunInit
NotLoopsInit ==
  /\ ExpandInit
  /\ SparseInit
  /\ RerankInit
  /\ ChunkInit
  /\ PendingInit
  /\ MultiInit
  /\ LoadInit
  /\ PassInit
  /\ SyncrunInit
NotPassInit ==
  /\ ExpandInit
  /\ SparseInit
  /\ RerankInit
  /\ ChunkInit
  /\ PendingInit
  /\ MultiInit
  /\ LoadInit
  /\ LoopsInit
  /\ SyncrunInit
NotSyncrunInit ==
  /\ ExpandInit
  /\ SparseInit
  /\ RerankInit
  /\ ChunkInit
  /\ PendingInit
  /\ MultiInit
  /\ LoadInit
  /\ LoopsInit
  /\ PassInit

CoreAuxInit ==
  /\ library = {}
  /\ last_sync = NoSync
  /\ poller_log = NoTick
  /\ delete_log = NoDelete
  /\ reprocess_log = EmptyMap
  /\ other_collections = {}
  /\ startup_log = NoStartup
  /\ listing = NoListing
  /\ session_threads = {}

AuxInit == CoreAuxInit /\ PureInit

IngestInit ==
  /\ documents = EmptyMap
  /\ next_id = 1
  /\ files = {}
  /\ side_store = {}
  /\ collections = EmptyMap
  /\ processing_status = EmptyMap
  /\ currently_processing_doc_id = NoDoc
  /\ app = "down"
  /\ running = FALSE
  /\ has_event = FALSE
  /\ event_set = FALSE
  /\ loop_stuck = FALSE
  /\ task_pc = "none"
  /\ task_thread = 0
  /\ thr = [t \in Threads |-> IdleThread]
  /\ terminal = {}
  /\ trigger_pending = FALSE
  /\ stopped_during = [t \in Threads |-> NoDoc]

Init == IngestInit /\ ChatInit /\ AuxInit

\* everything but the retrieval components
CoreInit == IngestInit /\ ChatInit /\ CoreAuxInit


\* ------------------------------------------------- worker: trigger_check
\* worker.py:56-81 from an async context (HTTP handlers): the guard, then
\* loop.call_soon_threadsafe(self._check_event.set), which wakes the loop.
trigger_check_async ==
  /\ IF has_event /\ running
       THEN event_set' = TRUE /\ trigger_pending' = TRUE
       ELSE UNCHANGED <<event_set, trigger_pending>>
  /\ loop_stuck' = FALSE
  /\ UNCHANGED <<running, has_event, task_pc, task_thread>>

\* worker.py:66-78 from a thread without a running loop: _set_event calls
\* self._check_event.set() directly.  asyncio.Event is not thread-safe: the
\* flag is set, but a task already sleeping in wait() is resumed through
\* loop.call_soon, which does not wake the selector; the loop may notice it
\* at once (stuck = FALSE) or only at its next wake-up (stuck = TRUE).
trigger_check_sync(stuck) ==
  /\ IF has_event /\ running
       THEN /\ event_set' = TRUE
            /\ trigger_pending' = TRUE
            /\ loop_stuck' = IF task_pc = "sleeping" /\ ~event_set
                               THEN stuck ELSE loop_stuck
       ELSE UNCHANGED <<event_set, trigger_pending, loop_stuck>>
  /\ UNCHANGED <<running, has_event, task_pc, task_thread>>

\* a handler on the event loop that does not touch the worker
NoTrigger ==
  /\ loop_stuck' = FALSE
  /\ UNCHANGED <<running, has_event, event_set, task_pc, task_thread,
                 trigger_pending>>

\* ------------------------------------------------- worker: start / stop
\* worker.py:35-44
start ==
  /\ ~running
  /\ running' = TRUE
  /\ has_event' = TRUE
  /\ event_set' = FALSE
  /\ loop_stuck' = FALSE
  /\ task_pc' = "initial"
  /\ task_thread' = 0

\* worker.py:46-54: the flag, then cancel() of the task.  The task is
\* suspended at an await (the executor future or wait_for) and ends there;
\* the executor thread running process_documents cannot be cancelled and
\* runs on.
stop ==
  /\ running' = FALSE
  /\ task_pc' = "none"
  /\ task_thread' = 0
  /\ loop_stuck' = FALSE
  /\ trigger_pending' = FALSE
  /\ stopped_during' = [t \in Threads |->
        IF thr[t].pc \in PipelinePcs THEN thr[t].doc ELSE stopped_during[t]]
  /\ UNCHANGED <<has_event, event_set>>

\* ------------------------------------------------- worker: _processing_loop
\* worker.py:112-114 _process_pending_documents: run_in_executor(None,
\* self.process_documents) on a free executor thread.
SpawnPass(t, next_pc) ==
  /\ thr[t].pc = "idle"
  /\ \A u \in Threads : u < t => thr[u].pc # "idle"
  /\ thr' = [thr EXCEPT ![t] = [IdleThread EXCEPT !.pc = "query"]]
  /\ task_thread' = t
  /\ task_pc' = next_pc
  /\ trigger_pending' = FALSE

\* worker.py:90-94 the initial pass
processing_loop_initial(t) ==
  /\ task_pc = "initial"
  /\ SpawnPass(t, "await_initial")
  /\ loop_stuck' = FALSE
  /\ UNCHANGED <<dbVars, diskVars, obsVars, app, running, has_event,
                 event_set, terminal, stopped_during>>
  /\ UNCHANGED <<chatVars, auxVars>>

\* worker.py:96-101 `while self.running:` and the pass of one iteration
processing_loop_iteration(t) ==
  /\ task_pc = "loop"
  /\ IF running
       THEN SpawnPass(t, "await_pass")
       ELSE /\ task_pc' = "none"
            /\ task_thread' = 0
            /\ UNCHANGED <<thr, trigger_pending>>
  /\ loop_stuck' = FALSE
  /\ UNCHANGED <<dbVars, diskVars, obsVars, app, running, has_event,
                 event_set, terminal, stopped_during>>
  /\ UNCHANGED <<chatVars, auxVars>>

\* worker.py:105-107 wait_for(self._check_event.wait(), ...) returns because
\* the event is set; then self._check_event.clear()
processing_loop_wake ==
  /\ task_pc = "sleeping"
  /\ event_set
  /\ ~loop_stuck
  /\ event_set' = FALSE
  /\ task_pc' = "loop"
  /\ UNCHANGED <<dbVars, diskVars, obsVars, app, running, has_event,
                 loop_stuck, task_thread, thr, histVars>>
  /\ UNCHANGED <<chatVars, auxVars>>

\* worker.py:105-110 the check_interval timer fires.  If the waiter was
\* completed meanwhile (flag set from a foreign thread) wait_for still
\* returns normally and the event is cleared; otherwise TimeoutError.
processing_loop_timeout ==
  /\ task_pc = "sleeping"
  /\ event_set' = FALSE
  /\ loop_stuck' = FALSE
  /\ task_pc' = "loop"
  /\ UNCHANGED <<dbVars, diskVars, obsVars, app, running, has_event,
                 task_thread, thr, histVars>>
  /\ UNCHANGED <<chatVars, auxVars>>

\* the awaited executor future completes: the task resumes after
\* worker.py:92 (initial pass) or worker.py:99 (pass of an iteration)
PassReturns(t) ==
  IF task_thread = t /\ task_pc = "await_initial"
    THEN task_pc' = "loop" /\ task_thread' = 0
  ELSE IF task_thread = t /\ task_pc = "await_pass"
    THEN task_pc' = "sleeping" /\ task_thread' = 0
  ELSE UNCHANGED <<task_pc, task_thread>>


\* ------------------------------------------------- worker: process_documents
SetThr(t, pc, doc, n) ==
  thr' = [thr EXCEPT ![t] = [pc |-> pc, doc |-> doc, n |-> n,
            path |-> IF pc \in PipelinePcs THEN thr[t].path ELSE NoPath]]

\* worker.py:128-150 one evaluation of the pending query.  first() has no
\* ORDER BY: any pending row may be returned.  Without a pending row the
\* pass ends (worker.py:133-149, 263-265) and the awaiting task resumes.
process_documents_query(t) ==
  /\ thr[t].pc = "query"
  /\ IF Pending = {}
       THEN /\ thr' = [thr EXCEPT ![t] = IdleThread]
            /\ PassReturns(t)
            /\ stopped_during' = [stopped_during EXCEPT ![t] = NoDoc]
       ELSE /\ \E d \in Pending : SetThr(t, "refresh", d, 0)
            /\ UNCHANGED <<task_pc, task_thread, stopped_during>>
  /\ UNCHANGED <<dbVars, diskVars, obsVars, app, running, has_event,
                 event_set, loop_stuck, terminal, trigger_pending>>
  /\ UNCHANGED <<chatVars, auxVars>>

\* worker.py:154-196 and 224-233: refresh, the already-processed skip, the
\* file check, the marker and the call of the pipeline (pipeline.py:67-70),
\* or the file-not-found failure mark.
process_documents_refresh(t) ==
  LET d == thr[t].doc IN
  /\ thr[t].pc = "refresh"
  /\ IF d \notin DOMAIN documents
       THEN \* db.refresh raises: row deleted by another session
            /\ SetThr(t, "except", d, 0)
            /\ UNCHANGED <<documents, obsVars, terminal>>
     ELSE IF documents[d].processed
       THEN /\ SetThr(t, "query", NoDoc, 0)
            /\ UNCHANGED <<documents, obsVars, terminal>>
     ELSE IF file_path(d) \in files
       THEN /\ currently_processing_doc_id' = d
            /\ processing_status' =
                 report_progress(processing_status, d, "extraction", 10)
            /\ thr' = [thr EXCEPT ![t] = [pc |-> "extraction", doc |-> d,
                                            n |-> 0, path |-> file_path(d)]]
            /\ UNCHANGED <<documents, terminal>>
     ELSE /\ documents' = [documents EXCEPT ![d] = mark_failed(documents[d])]
          /\ terminal' = terminal \cup {d}
          /\ SetThr(t, "query", NoDoc, 0)
          /\ UNCHANGED obsVars
  /\ UNCHANGED <<next_id, diskVars, app, workerVars, trigger_pending,
                 stopped_during>>
  /\ UNCHANGED <<chatVars, auxVars>>

\* worker.py:198-222 after the pipeline returned: clear the marker, commit,
\* refresh (raises if the row was deleted meanwhile)
process_documents_complete(t) ==
  LET d == thr[t].doc IN
  /\ thr[t].pc = "pipeline_done"
  /\ currently_processing_doc_id' = NoDoc
  /\ IF d \in DOMAIN documents
       THEN SetThr(t, "query", NoDoc, 0)
       ELSE SetThr(t, "except", d, 0)
  /\ UNCHANGED <<dbVars, diskVars, processing_status, app, workerVars,
                 histVars>>
  /\ UNCHANGED <<chatVars, auxVars>>

\* worker.py:235-258 the except block: clear the marker, re-fetch the row by
\* id and mark it failed
process_documents_except(t) ==
  LET d == thr[t].doc IN
  /\ thr[t].pc = "except"
  /\ currently_processing_doc_id' = NoDoc
  /\ IF d \in DOMAIN documents
       THEN /\ documents' = [documents EXCEPT ![d] = mark_failed(documents[d])]
            /\ terminal' = terminal \cup {d}
       ELSE UNCHANGED <<documents, terminal>>
  /\ SetThr(t, "query", NoDoc, 0)
  /\ UNCHANGED <<next_id, diskVars, processing_status, app, workerVars,
                 trigger_pending, stopped_during>>
  /\ UNCHANGED <<chatVars, auxVars>>

\* ------------------------------------------------- pipeline.process_document
\* pipeline.py:73-95 text extraction (needs the source file) and metadata
\* extraction (_extract_metadata swallows its own errors)
pipeline_extract(t) ==
  LET d == thr[t].doc IN
  /\ thr[t].pc = "extraction"
  /\ thr[t].path \in files
  /\ processing_status' = report_progress(processing_status, d, "chunking", 35)
  /\ SetThr(t, "chunking", d, 0)
  /\ UNCHANGED <<dbVars, diskVars, currently_processing_doc_id, app,
                 workerVars, histVars>>
  /\ UNCHANGED <<chatVars, auxVars>>

\* the chunking stage without the write of the side-store file
pipeline_chunk_no_side_store(t, n) ==
  LET d == thr[t].doc IN
  /\ thr[t].pc = "chunking"
  /\ processing_status' = report_progress(processing_status, d, "embedding", 50)
  /\ SetThr(t, "reset", d, n)
  /\ UNCHANGED <<dbVars, diskVars, currently_processing_doc_id,
                 app, workerVars, histVars>>
  /\ UNCHANGED <<chatVars, auxVars>>

\* pipeline.py:98-123 create_chunks writes the side-store file and returns
\* the chunks (document_processor.py:143-214)
pipeline_chunk(t, n) ==
  LET d == thr[t].doc IN
  /\ thr[t].pc = "chunking"
  /\ side_store' = side_store \cup {d}
  /\ processing_status' = report_progress(processing_status, d, "embedding", 50)
  /\ SetThr(t, "reset", d, n)
  /\ UNCHANGED <<dbVars, files, collections, currently_processing_doc_id,
                 app, workerVars, histVars>>
  /\ UNCHANGED <<chatVars, auxVars>>

\* pipeline.py:126-138 vector_store.reset_collection: delete, then create
pipeline_reset(t) ==
  LET d == thr[t].doc IN
  /\ thr[t].pc = "reset"
  /\ collections' = Put(collections, d, 0)
  /\ processing_status' = report_progress(processing_status, d, "embedding", 55)
  /\ SetThr(t, "add", d, thr[t].n)
  /\ UNCHANGED <<dbVars, files, side_store, currently_processing_doc_id,
                 app, workerVars, histVars>>
  /\ UNCHANGED <<chatVars, auxVars>>

\* pipeline.py:141-153 vector_store.add_documents: ensure_collection and the
\* upsert of one point per chunk
pipeline_add(t) ==
  LET d == thr[t].doc IN
  /\ thr[t].pc = "add"
  /\ collections' = Put(collections, d,
        (IF collection_exists(d) THEN collections[d] ELSE 0) + thr[t].n)
  /\ processing_status' = report_progress(processing_status, d, "finalizing", 95)
  /\ SetThr(t, "finalizing", d, thr[t].n)
  /\ UNCHANGED <<dbVars, files, side_store, currently_processing_doc_id,
                 app, workerVars, histVars>>
  /\ UNCHANGED <<chatVars, auxVars>>

\* pipeline.py:155-185 refresh (or re-fetch) the row, set pickle_path,
\* processed and num_chunks, commit, report completion
pipeline_finalize(t) ==
  LET d == thr[t].doc IN
  /\ thr[t].pc = "finalizing"
  /\ d \in DOMAIN documents
  /\ documents' = [documents EXCEPT ![d].pickle_path = TRUE,
                                     ![d].processed = TRUE,
                                     ![d].num_chunks = thr[t].n]
  /\ processing_status' = report_progress(processing_status, d, "complete", 100)
  /\ SetThr(t, "pipeline_done", d, thr[t].n)
  /\ UNCHANGED <<next_id, diskVars, currently_processing_doc_id, app,
                 workerVars, histVars>>
  /\ UNCHANGED <<chatVars, auxVars>>

\* pipeline.py:187-206 a stage raised (or the row no longer exists at
\* pipeline.py:160-162): report the error, roll back, re-raise to the worker
pipeline_fail(t) ==
  LET d == thr[t].doc IN
  /\ thr[t].pc \in PipelinePcs
  /\ processing_status' = report_progress(processing_status, d, "error", 0)
  /\ SetThr(t, "except", d, 0)
  /\ UNCHANGED <<dbVars, diskVars, currently_processing_doc_id, app,
                 workerVars, histVars>>
  /\ UNCHANGED <<chatVars, auxVars>>


\* ------------------------------------------------- HTTP handlers: documents
\* api/documents.py:64-90 POST /documents: save the file under
\* upload_dir/filename, insert the row, trigger the worker
upload_document(name) ==
  /\ app = "up"
  /\ next_id <= MaxDocs
  /\ files' = files \cup {<<"uploads", name>>}
  /\ documents' = Put(documents, next_id, NewDocument(name, "uploads"))
  /\ next_id' = next_id + 1
  /\ trigger_check_async
  /\ UNCHANGED <<side_store, collections, obsVars, app, thr, terminal,
                 stopped_during>>
  /\ UNCHANGED <<chatVars, auxVars>>

\* api/documents.py:153-168 POST /documents/{id}/reprocess
reprocess_document_handler(d) ==
  /\ app = "up"
  /\ d \in DOMAIN documents
  /\ documents' = [documents EXCEPT ![d].processed = FALSE]
  /\ trigger_check_async
  /\ UNCHANGED <<next_id, diskVars, obsVars, app, thr, terminal,
                 stopped_during>>

reprocess_document(d) ==
  /\ reprocess_document_handler(d)
  /\ UNCHANGED <<chatVars, auxVars>>

\* the worker has nothing to do and nothing in hand: every thread idle, the
\* loop asleep in wait_for (worker.py:95-101), the event clear and the
\* pending query (worker.py:128-131) empty
Quiescent ==
  /\ \A t \in Threads : thr[t] = IdleThread
  /\ task_pc = "sleeping"
  /\ ~event_set
  /\ Pending = {}

\* the same handler, remembering the pair (processed, num_chunks) the row
\* had when it was first reprocessed with the worker at rest
reprocess_document_logged(d) ==
  /\ reprocess_document_handler(d)
  /\ reprocess_log' =
       IF d \in DOMAIN reprocess_log
         THEN [reprocess_log EXCEPT ![d].count = IF @ < 2 THEN @ + 1 ELSE @]
       ELSE IF Quiescent
         THEN Put(reprocess_log, d,
                  [before |-> <<documents[d].processed, documents[d].num_chunks>>,
                   count |-> 1])
       ELSE reprocess_log
  /\ UNCHANGED <<chatVars, notReprocessVars>>

\* api/documents.py:187-207 DELETE /documents/{id}: the row, then best
\* effort the collection (vector_store.delete_document may raise), the
\* side-store file named by pickle_path and the source file
delete_document(d, coll_ok) ==
  /\ app = "up"
  /\ d \in DOMAIN documents
  /\ documents' = Remove(documents, d)
  /\ collections' = IF coll_ok THEN Remove(collections, d) ELSE collections
  /\ side_store' = IF documents[d].pickle_path THEN side_store \ {d}
                                               ELSE side_store
  /\ files' = files \ {file_path(d)}
  /\ NoTrigger
  /\ terminal' = terminal \ {d}
  /\ UNCHANGED <<next_id, obsVars, app, thr, stopped_during>>
  /\ UNCHANGED <<chatVars, auxVars>>

\* ------------------------------------------------- zotero sync
\* integrations/zotero/sync.py:86-180 _sync_single_item for a PDF attachment
\* named name, followed by the handler's trigger (api/zotero.py:33-38) when
\* the item was queued.  The download may fail.
sync_single_item(name, downloaded) ==
  LET same == {d \in DOMAIN documents : documents[d].filename = name} IN
  /\ app = "up"
  /\ \/ \* an existing row is found (first() of the rows with that filename)
        \E d \in same :
          /\ ~documents[d].processed
          /\ downloaded
          /\ files' = files \cup {<<"zotero_downloads", name>>}
          /\ documents' = [documents EXCEPT ![d].dir = "zotero_downloads",
                                             ![d].processed = FALSE,
                                             ![d].num_chunks = 0]
          /\ next_id' = next_id
          /\ trigger_check_async
     \/ \* no row with that filename: a new row is inserted
        /\ same = {}
        /\ downloaded
        /\ next_id <= MaxDocs
        /\ files' = files \cup {<<"zotero_downloads", name>>}
        /\ documents' = Put(documents, next_id,
                            NewDocument(name, "zotero_downloads"))
        /\ next_id' = next_id + 1
        /\ trigger_check_async
     \/ \* skipped (already_exists) or failed (download_failed)
        /\ \/ \E d \in same : documents[d].processed
           \/ ~downloaded /\ (same = {} \/ \E d \in same : ~documents[d].processed)
        /\ NoTrigger
        /\ UNCHANGED <<dbVars, files>>
  /\ UNCHANGED <<side_store, collections, obsVars, app, thr, terminal,
                 stopped_during>>
  /\ UNCHANGED <<chatVars, auxVars>>

\* ------------------------------------------------- GET /documents
\* api/documents.py:17 `from core.state import ... currently_processing_doc_id`
\* binds the name in api.documents to the value core.state holds at import
\* time, None (core/state.py:10).  Nothing assigns to that name afterwards:
\* the worker assigns to the attribute of the module main
\* (worker.py:185-205, 236-240), the variable currently_processing_doc_id of
\* this model.
api_documents_currently_processing_doc_id == NoDoc

\* api/documents.py:38 "is_actively_processing"
is_actively_processing(d) == api_documents_currently_processing_doc_id = d

\* api/documents.py:23-41 list_documents
list_documents ==
  /\ app = "up"
  /\ listing' = [seq |-> 1 - listing.seq,
                 flags |-> [d \in DOMAIN documents |-> is_actively_processing(d)]]
  /\ NoTrigger
  /\ UNCHANGED <<dbVars, diskVars, obsVars, app, thr, terminal,
                 stopped_during>>
  /\ UNCHANGED <<chatVars, notListVars>>

\* ------------------------------------------------- DELETE /documents/{id}
\* the three handlers of the repository
DeleteVariants == {"api.documents", "main", "app.main"}

\* One DELETE request for an existing document.  db_ok, coll_ok, pickle_ok
\* and file_ok say whether the database delete, the deletion of the
\* collection, of the side-store file and of the source file succeed.
\*  api/documents.py:187-207 and main.py:483-530: db.delete + commit first
\*   (a failure ends the request with status 500), then the collection,
\*   the side-store file and the source file, each failure logged only
\*   (FileHandler.delete_file, file_handler.py:459-469, returns False).
\*  app/main.py:355-383: collection, side-store file, source file and only
\*   then db.delete + commit, all in one try; the first failing step ends
\*   the request with rollback and status 500.
delete_document_request(d, v, db_ok, coll_ok, pickle_ok, file_ok) ==
  LET has_coll == d \in DOMAIN collections
      has_pickle == documents[d].pickle_path /\ d \in side_store
      has_file == file_path(d) \in files
      db_first == v # "app.main"
      \* how far app/main.py gets inside its try block
      coll_done == has_coll /\ coll_ok
      coll_raised == has_coll /\ ~coll_ok
      pickle_raised == has_pickle /\ ~pickle_ok
      file_raised == has_file /\ ~file_ok
      rm_coll == IF db_first THEN db_ok /\ coll_done ELSE coll_done
      rm_pickle == IF db_first THEN db_ok /\ has_pickle /\ pickle_ok
                   ELSE ~coll_raised /\ has_pickle /\ pickle_ok
      rm_file == IF db_first THEN db_ok /\ has_file /\ file_ok
                 ELSE ~coll_raised /\ ~pickle_raised /\ has_file /\ file_ok
      db_tried == IF db_first THEN TRUE
                  ELSE ~coll_raised /\ ~pickle_raised /\ ~file_raised
      rm_row == db_tried /\ db_ok
  IN
  /\ app = "up"
  /\ d \in DOMAIN documents
  /\ documents' = IF rm_row THEN Remove(documents, d) ELSE documents
  /\ collections' = IF rm_coll THEN Remove(collections, d) ELSE collections
  /\ side_store' = IF rm_pickle THEN side_store \ {d} ELSE side_store
  /\ files' = IF rm_file THEN files \ {file_path(d)} ELSE files
  /\ terminal' = IF rm_row THEN terminal \ {d} ELSE terminal
  /\ delete_log' =
       [status |-> IF rm_row THEN "deleted" ELSE "500",
        db |-> IF ~db_tried THEN "not attempted"
               ELSE IF db_ok THEN "ok" ELSE "failed",
        seq |-> IF delete_log = NoDelete THEN 0 ELSE 1 - delete_log.seq]
  /\ NoTrigger
  /\ UNCHANGED <<next_id, obsVars, app, thr, stopped_during>>
  /\ UNCHANGED <<chatVars, notDeleteVars>>

\* ------------------------------------------------- zotero sync service
\* A library item is an attachment [key, name].  sync.py:97-103: a filename
\* that does not end in .pdf is skipped; such filenames are the names below 1.
NonPdfName == 0
ItemKeys == 1..MaxItems
ItemNames == Names \cup {NonPdfName}
Items == [key : ItemKeys, name : ItemNames]
ends_with_pdf(name) == name # NonPdfName

\* the two sync services of the repository
SyncServices == {"integrations.zotero.sync", "zotero_sync_service"}

\* the stores a sync call works on, with its result counters
SyncState ==
  [documents |-> documents, next_id |-> next_id, files |-> files,
   side_store |-> side_store, collections |-> collections,
   synced |-> 0, skipped |-> 0, failed |-> 0]

Filenames(docs) == {docs[d].filename : d \in DOMAIN docs}

\* sync.py:105-107 db.query(Document).filter(filename == ...).first(): one
\* of the rows with that filename (no ORDER BY); pref names the row the
\* database returns first when it is among them
first_with_filename(docs, name, pref) ==
  LET same == {d \in DOMAIN docs : docs[d].filename = name} IN
  IF same = {} THEN NoDoc
  ELSE IF pref \in same THEN pref
  ELSE CHOOSE d \in same : TRUE

\* integrations/zotero/sync.py:86-180 _sync_single_item: skip what is not a
\* PDF or already processed, download, then create the row or reset the
\* existing one; status "queued" counts as synced (sync.py:53-55)
sync_single_item_queue(st, item, downloaded, pref) ==
  LET existing == first_with_filename(st.documents, item.name, pref)
      path == <<"zotero_downloads", item.name>>
  IN
  IF ~ends_with_pdf(item.name)
    THEN [st EXCEPT !.skipped = @ + 1]
  ELSE IF existing # NoDoc /\ st.documents[existing].processed
    THEN [st EXCEPT !.skipped = @ + 1]
  ELSE IF ~downloaded
    THEN [st EXCEPT !.failed = @ + 1]
  ELSE IF existing # NoDoc
    THEN [st EXCEPT !.files = @ \cup {path},
                    !.documents[existing].dir = "zotero_downloads",
                    !.documents[existing].processed = FALSE,
                    !.documents[existing].num_chunks = 0,
                    !.synced = @ + 1]
  ELSE [st EXCEPT !.files = @ \cup {path},
                  !.documents = Put(@, st.next_id,
                                    NewDocument(item.name, "zotero_downloads")),
                  !.next_id = @ + 1,
                  !.synced = @ + 1]

\* services/zotero_sync_service.py:81-210 _sync_single_item of the older
\* service: after the download it extracts, chunks (side-store file),
\* embeds into the collection and marks the row processed itself.  The
\* file_path of an existing row is left as it is.
sync_single_item_inline(st, item, downloaded, pref, n) ==
  LET existing == first_with_filename(st.documents, item.name, pref)
      path == <<"zotero_downloads", item.name>>
      d == IF existing # NoDoc THEN existing ELSE st.next_id
      row == IF existing # NoDoc THEN st.documents[existing]
                                 ELSE NewDocument(item.name, "zotero_downloads")
      points == IF d \in DOMAIN st.collections THEN st.collections[d] ELSE 0
  IN
  IF ~ends_with_pdf(item.name)
    THEN [st EXCEPT !.skipped = @ + 1]
  ELSE IF existing # NoDoc /\ st.documents[existing].processed
    THEN [st EXCEPT !.skipped = @ + 1]
  ELSE IF ~downloaded
    THEN [st EXCEPT !.failed = @ + 1]
  ELSE [st EXCEPT !.files = @ \cup {path},
                  !.side_store = @ \cup {d},
                  !.collections = Put(@, d, points + n),
                  !.documents = Put(@, d,
                      [row EXCEPT !.pickle_path = TRUE, !.processed = TRUE,
                                  !.num_chunks = n]),
                  !.next_id = IF existing # NoDoc THEN @ ELSE @ + 1,
                  !.synced = @ + 1]

sync_single_item_of(svc, st, item, downloaded, pref, n) ==
  IF svc = "zotero_sync_service"
    THEN sync_single_item_inline(st, item, downloaded, pref, n)
    ELSE sync_single_item_queue(st, item, downloaded, pref)

\* the loop `for item in ...: self._sync_single_item(item, db)` over the
\* items in the order of their keys (sync.py:50-60, 215-228)
RECURSIVE sync_items(_, _, _, _, _, _)
sync_items(svc, st, items, ok, pref, n) ==
  IF items = {} THEN st
  ELSE LET item == CHOOSE i \in items : \A j \in items : i.key <= j.key IN
       sync_items(svc,
                  sync_single_item_of(svc, st, item, ok[item.key], pref, n),
                  items \ {item}, ok, pref, n)

\* a new-only path that takes every attachment for new
new_items_unfiltered(lib, docs) == lib

\* sync.py:190-205: the attachments whose filename is not empty and not a
\* Document filename
new_items(lib, docs) == {i \in lib : i.name \notin Filenames(docs)}

\* sync.py:28-82 sync_all_documents, sync.py:182-241 sync_new_documents_only
sync_service_call(mode, svc, ok, pref, n) ==
  LET items == IF mode = "new" THEN new_items(library, documents) ELSE library
  IN  sync_items(svc, SyncState, items, ok, pref, n)

\* what the last sync call returned (results dict, sync.py:206-211, and
\* the "Found N new documents" count of sync.py:207), the library and the
\* Document filenames it left, and whether it directly followed a new-only
\* call of the same service with library and documents as that call left them
SyncRecord(mode, svc, found, st) ==
  LET follows == /\ last_sync # NoSync
                 /\ last_sync.mode = "new"
                 /\ last_sync.svc = svc
                 /\ last_sync.lib = library
                 /\ last_sync.names = Filenames(documents)
  IN
  [mode |-> mode, svc |-> svc, found |-> found, synced |-> st.synced,
   skipped |-> st.skipped, failed |-> st.failed, lib |-> library,
   names |-> Filenames(st.documents),
   after_new |-> follows,
   prev_synced |-> IF follows THEN last_sync.synced ELSE 0,
   prev_failed |-> IF follows THEN last_sync.failed ELSE 0,
   seq |-> IF last_sync = NoSync THEN 0 ELSE 1 - last_sync.seq]

\* api/zotero.py:18-78 POST /zotero/sync and POST /zotero/sync/new: the
\* sync runs in the handler and the worker is triggered when something was
\* queued.  services/zotero-router.py:17-52 hands the call of the older
\* service to a background task and triggers nothing.
zotero_sync(mode, svc, ok, pref, n) ==
  LET st == sync_service_call(mode, svc, ok, pref, n)
      found == IF mode = "new"
                 THEN Cardinality(new_items(library, documents))
                 ELSE Cardinality(library)
  IN
  /\ app = "up"
  /\ library # {}
  /\ st.next_id <= MaxDocs + 1
  /\ documents' = st.documents
  /\ next_id' = st.next_id
  /\ files' = st.files
  /\ side_store' = st.side_store
  /\ collections' = st.collections
  /\ last_sync' = SyncRecord(mode, svc, found, st)
  /\ IF svc = "integrations.zotero.sync" /\ st.synced > 0
       THEN trigger_check_async
       ELSE NoTrigger
  /\ UNCHANGED <<obsVars, app, thr, terminal, stopped_during>>
  /\ UNCHANGED <<library, poller_log>>
  /\ UNCHANGED <<chatVars, notZoteroVars>>

\* ------------------------------------------------- zotero poller
\* poller.py:95 `result = sync_service.sync_new_documents_only` names the
\* method without calling it: result is the bound method, result.get
\* (poller.py:97) raises AttributeError, and `except Exception as sync_exc`
\* (poller.py:112) logs it.  The sync service is entered only if the
\* expression is a call.
\* (the same line with the parentheses of a call)
poller_calls_sync_new_documents_only_called == TRUE
poller_calls_sync_new_documents_only == FALSE

\* poller.py:60-122 _sync_check_documents, one tick of _poll_loop
\* (poller.py:44-58), run in an executor thread
sync_check_documents(auto_sync, ok, pref) ==
  LET new_count == Cardinality({i \in library :
                       ends_with_pdf(i.name) /\ i.name \notin Filenames(documents)})
      st == sync_service_call("new", "integrations.zotero.sync", ok, pref, 0)
      found == Cardinality(new_items(library, documents))
      enters == new_count > 0 /\ auto_sync /\ poller_calls_sync_new_documents_only
  IN
  /\ app = "up"
  /\ IF enters
       THEN /\ st.next_id <= MaxDocs + 1
            /\ documents' = st.documents
            /\ next_id' = st.next_id
            /\ files' = st.files
            /\ last_sync' = SyncRecord("new", "integrations.zotero.sync", found, st)
            /\ \E stuck \in BOOLEAN :
                 IF st.synced > 0
                   THEN trigger_check_sync(stuck)
                   ELSE UNCHANGED <<workerVars, trigger_pending>>
            /\ poller_log' = [new_count |-> new_count, auto_sync |-> auto_sync,
                              sync_called |-> TRUE,
                              triggered |-> st.synced > 0]
       ELSE /\ poller_log' = [new_count |-> new_count, auto_sync |-> auto_sync,
                              sync_called |-> FALSE, triggered |-> FALSE]
            /\ UNCHANGED <<dbVars, files, last_sync, workerVars,
                           trigger_pending>>
  /\ UNCHANGED <<side_store, collections, obsVars, app, thr, terminal,
                 stopped_during, library>>
  /\ UNCHANGED <<chatVars, notZoteroVars>>

\* the external library changes: an attachment is added or removed
library_change(item, add) ==
  /\ IF add
       THEN /\ \A i \in library : i.key # item.key
            /\ library' = library \cup {item}
       ELSE /\ item \in library
            /\ library' = library \ {item}
  /\ UNCHANGED <<last_sync, poller_log>>
  /\ UNCHANGED <<ingestVars, chatVars, notZoteroVars>>

\* ------------------------------------------------- a sync call, step by step
\* api/zotero.py:18-78: trigger_sync and sync_new_only are coroutines that
\* call the sync service without awaiting anything, so a sync call runs on
\* the event-loop thread from its first statement to its return and no
\* other handler runs in between.  What does run in between is what has
\* its own thread: a tick of the poller (poller.py:57-58 run_in_executor).
syncRunRest == <<chatVars, zoteroVars, deleteVars, reprocessVars, startupVars,
                 listVars, sessionVars, expandVars, sparseVars, rerankVars,
                 chunkVars, pendingVars, multiVars, loadVars, loopsVars,
                 passVars>>

next_item(items) == CHOOSE i \in items : \A j \in items : i.key <= j.key

\* sync.py:28-50 sync_all_documents, sync.py:182-217 sync_new_documents_only
\* up to the loop: the items are read from the library once
api_sync_begin(mode) ==
  /\ app = "up"
  /\ sync_run.pc = "idle"
  /\ library # {}
  /\ sync_run' = [NoSyncRun EXCEPT
        !.pc = "item", !.mode = mode,
        !.items = IF mode = "new" THEN new_items(library, documents)
                                  ELSE library]
  /\ UNCHANGED <<ingestVars, syncRunRest>>

\* sync.py:86-121 _sync_single_item up to the download: the skips and the
\* query for a row with the filename
sync_single_item_query(pref) ==
  LET item == next_item(sync_run.items)
      existing == first_with_filename(documents, item.name, pref)
      skipped == \/ ~ends_with_pdf(item.name)
                 \/ existing # NoDoc /\ documents[existing].processed
  IN
  /\ sync_run.pc = "item"
  /\ sync_run.items # {}
  /\ sync_run' = IF skipped
                   THEN [sync_run EXCEPT !.items = @ \ {item}]
                   ELSE [sync_run EXCEPT !.pc = "download", !.item = item,
                                         !.existing = existing]
  /\ UNCHANGED <<ingestVars, syncRunRest>>

\* sync.py:122-161 _sync_single_item from the download on: the row found
\* by the query is reset, or a row is added, and the change is committed
sync_single_item_store(downloaded) ==
  LET item == sync_run.item
      existing == sync_run.existing
      path == <<"zotero_downloads", item.name>>
  IN
  /\ sync_run.pc = "download"
  /\ IF ~downloaded
       THEN /\ sync_run' = [sync_run EXCEPT !.pc = "item", !.items = @ \ {item}]
            /\ UNCHANGED <<documents, next_id, files>>
     ELSE /\ sync_run' = [sync_run EXCEPT !.pc = "item", !.items = @ \ {item},
                                          !.synced = @ + 1]
          /\ files' = files \cup {path}
          /\ IF existing # NoDoc
               THEN /\ documents' = [documents EXCEPT
                          ![existing].dir = "zotero_downloads",
                          ![existing].processed = FALSE,
                          ![existing].num_chunks = 0]
                    /\ UNCHANGED next_id
               ELSE /\ next_id <= MaxDocs
                    /\ documents' = Put(documents, next_id,
                                        NewDocument(item.name, "zotero_downloads"))
                    /\ next_id' = next_id + 1
  /\ UNCHANGED <<side_store, collections, obsVars, app, workerVars, thr,
                 histVars>>
  /\ UNCHANGED syncRunRest

\* sync.py:70-82, api/zotero.py:33-47 the loop is over: the handler
\* triggers the worker when something was queued, and returns
api_sync_return ==
  /\ sync_run.pc = "item"
  /\ sync_run.items = {}
  /\ sync_run' = [sync_run EXCEPT !.pc = "idle"]
  /\ IF sync_run.synced > 0 THEN trigger_check_async ELSE NoTrigger
  /\ UNCHANGED <<dbVars, diskVars, obsVars, app, thr, terminal,
                 stopped_during>>
  /\ UNCHANGED syncRunRest

\* api/documents.py:64-90 POST /documents, a handler on the event loop
upload_on_loop(name) ==
  /\ sync_run.pc = "idle"
  /\ upload_document(name)

\* ------------------------------------------------- lifespan
\* Collection names: doc_<d> (vector_store.py:40-41
\* collection_name_for_document) and names without the prefix doc_.
collection_name(d) == <<"doc_", d>>
PrefixedNames == {collection_name(d) : d \in Ids}
OtherNames == {<<"other", k>> : k \in 1..MaxOthers}
starts_with_prefix(c) == c[1] = "doc_"

\* the collections client.get_collections() lists
StoreNames(colls, others) ==
  {collection_name(d) : d \in DOMAIN colls} \cup others

\* a cleanup that deletes nothing
cleanup_orphaned_collections_keep(store, valid, list_ok, failing) == store

\* a cleanup that drops every collection outside the valid set
cleanup_orphaned_collections_any_name(store, valid, list_ok, failing) ==
  IF ~list_ok THEN store ELSE store \cap valid

\* vector_store.py:160-176 cleanup_orphaned_collections(valid_collections):
\* when the listing fails nothing is deleted; otherwise every listed
\* collection whose name starts with the prefix and is not in the valid set
\* is deleted, a failing delete being logged and passed over (failing: the
\* names whose delete raises)
cleanup_orphaned_collections(store, valid, list_ok, failing) ==
  IF ~list_ok THEN store
  ELSE store \ {c \in store : /\ starts_with_prefix(c)
                               /\ c \notin valid
                               /\ c \notin failing}

\* a reconciliation that marks the rows it resets as failed
sync_documents_with_qdrant_mark_failed(docs) ==
  [d \in DOMAIN docs |->
     IF docs[d].processed /\ ~document_exists(d)
       THEN [docs[d] EXCEPT !.processed = FALSE, !.num_chunks = -1]
       ELSE docs[d]]

\* app_lifespan.py:22-57 _sync_documents_with_qdrant: a processed row whose
\* collection is missing or holds no point becomes unprocessed
sync_documents_with_qdrant(docs) ==
  [d \in DOMAIN docs |->
     IF docs[d].processed /\ ~document_exists(d)
       THEN [docs[d] EXCEPT !.processed = FALSE, !.num_chunks = 0]
       ELSE docs[d]]

\* app_lifespan.py:127-147 startup: the reconciliation, then worker.start()
\* the rows _sync_documents_with_qdrant resets (app_lifespan.py:34-40)
MissingInStore == {d \in DOMAIN documents :
                     documents[d].processed /\ ~document_exists(d)}

\* app_lifespan.py:22-57 valid_collections
valid_collections == {collection_name(d) : d \in DOMAIN documents}

\* app_lifespan.py:60-145 lifespan up to `yield`: the reconciliation
\* (rows first, committed, then the orphaned collections), then the worker
\* is started
lifespan_startup_handler(list_ok, failing) ==
  LET store == StoreNames(collections, other_collections)
      left == cleanup_orphaned_collections(store, valid_collections,
                                           list_ok, failing)
  IN
  /\ app = "down"
  /\ documents' = sync_documents_with_qdrant(documents)
  /\ collections' = [d \in {x \in DOMAIN collections :
                               collection_name(x) \in left} |-> collections[d]]
  /\ other_collections' = other_collections \cap left
  /\ start
  /\ app' = "up"
  /\ UNCHANGED <<next_id, files, side_store, obsVars, thr, histVars>>

lifespan_startup ==
  /\ \E list_ok \in BOOLEAN, failing \in SUBSET PrefixedNames :
       lifespan_startup_handler(list_ok, failing)
  /\ UNCHANGED startup_log
  /\ UNCHANGED <<chatVars, notStartupVars>>

\* the same startup, remembering what the reconciliation met
lifespan_startup_logged(list_ok, failing) ==
  /\ lifespan_startup_handler(list_ok, failing)
  /\ startup_log' =
       [done |-> TRUE,
        store |-> StoreNames(collections, other_collections),
        valid |-> valid_collections,
        list_ok |-> list_ok,
        failing |-> failing,
        reset |-> MissingInStore]
  /\ UNCHANGED <<chatVars, notStartupVars>>

\* app_lifespan.py:156-165 shutdown: worker.stop()
lifespan_shutdown ==
  /\ app = "up"
  /\ stop
  /\ app' = "stopping"
  /\ UNCHANGED <<dbVars, diskVars, obsVars, thr, terminal>>
  /\ UNCHANGED <<chatVars, auxVars>>

\* the process ends once the executor threads have returned (the interpreter
\* joins them at exit); the process-wide state of core/state.py and the
\* worker singleton are gone
process_exit ==
  /\ app = "stopping"
  /\ \A t \in Threads : thr[t].pc = "idle"
  /\ app' = "down"
  /\ processing_status' = EmptyMap
  /\ currently_processing_doc_id' = NoDoc
  /\ has_event' = FALSE
  /\ event_set' = FALSE
  /\ UNCHANGED <<dbVars, diskVars, running, loop_stuck, task_pc, task_thread,
                 thr, histVars>>
  /\ UNCHANGED <<chatVars, auxVars>>

\* ------------------------------------------------- HTTP handlers: chat
\* api/chat.py:20-27 POST /chats
\* The session `db` of a /query/stream request (Depends(get_db),
\* api/chat.py:68, main.py:534) is the one object the handler, the closure
\* run_retrieval and the closure event_generator refer to.  The handler is
\* a coroutine on the event-loop thread, run_retrieval runs in its own
\* threading.Thread (api/chat.py:114) and the plain generator is iterated
\* in a threadpool thread by the streaming response.
session_used_by(thread) ==
  /\ session_threads' = session_threads \cup {thread}
  /\ UNCHANGED <<ingestVars, notSessionVars>>

create_chat ==
  /\ app = "up"
  /\ Cardinality(chats) < MaxChats
  /\ chats' = chats \cup {Cardinality(chats) + 1}
  /\ UNCHANGED <<messages, variant, http_status, req_count, req_chat, ret_pc,
                 produced, thinking_queue, retrieval_done, retrieval_result,
                 gen_pc, tokens, accumulated_answer, sse>>
  /\ UNCHANGED <<ingestVars, auxVars>>

\* api/documents.py:171-184 PATCH /documents/{id}/preferences
update_preferences(d, enabled) ==
  /\ app = "up"
  /\ d \in DOMAIN documents
  /\ documents' = [documents EXCEPT ![d].query_enabled = enabled]
  /\ UNCHANGED <<next_id, diskVars, obsVars, app, workerVars, thr, histVars>>
  /\ UNCHANGED <<chatVars, auxVars>>

\* the active map without the query_enabled filter
get_active_doc_collection_map_processed ==
  {d \in DOMAIN documents : documents[d].processed}

\* core/state.py:13-22 get_active_doc_collection_map: the ids of the rows
\* with processed and query_enabled (build_collection_map maps each to its
\* collection name)
get_active_doc_collection_map ==
  {d \in DOMAIN documents :
     documents[d].processed /\ documents[d].query_enabled}

\* texts are sequences of characters
Query == <<"q">>
CannedAnswer == <<"No relevant information found.">>
\* the tokens generate_answer_stream can yield, the empty one among them
Tokens == {<<>>, <<"a">>, <<"b">>}

Message(id, chat_id, role, kind, content, request) ==
  [id |-> id, chat_id |-> chat_id, role |-> role, kind |-> kind,
   content |-> content, request |-> request]

Event(type, step, content, sources, message_id) ==
  [type |-> type, step |-> step, content |-> content, sources |-> sources,
   message_id |-> message_id]

\* api/chat.py:67-120, main.py:534-626 POST /query/stream up to the start of
\* the retrieval thread: 404 without the chat, 400 without an active
\* document, else the user message is committed and the stream starts
query_documents_stream(chat_id, v) ==
  /\ app = "up"
  /\ gen_pc = "none"
  /\ ret_pc = "none"
  /\ req_count < MaxRequests
  /\ req_count' = req_count + 1
  /\ req_chat' = chat_id
  /\ variant' = v
  /\ IF chat_id \notin chats
       THEN /\ http_status' = 404
            /\ UNCHANGED <<messages, ret_pc, gen_pc>>
     ELSE IF get_active_doc_collection_map = {}
       THEN /\ http_status' = 400
            /\ UNCHANGED <<messages, ret_pc, gen_pc>>
     ELSE /\ http_status' = 200
          /\ messages' = Append(messages,
                Message(Len(messages) + 1, chat_id, "user", "query",
                        Query, req_count + 1))
          /\ ret_pc' = "running"
          /\ gen_pc' = "poll"
  /\ UNCHANGED <<chats, produced, thinking_queue, retrieval_done,
                 retrieval_result, tokens, accumulated_answer, sse>>
  \* api/chat.py:72-90 the handler queries and commits through db
  /\ session_threads' = {"request"}
  /\ UNCHANGED <<ingestVars, notSessionVars>>

\* api/chat.py:104-110 on_thinking: one step of the retrieval is put on the
\* queue
run_retrieval_thinking ==
  /\ ret_pc = "running"
  /\ produced < MaxSteps
  /\ produced' = produced + 1
  /\ thinking_queue' = Append(thinking_queue, <<"thinking", produced + 1>>)
  /\ UNCHANGED <<chats, messages, variant, http_status, req_count, req_chat,
                 ret_pc, retrieval_done, retrieval_result, gen_pc, tokens, accumulated_answer, sse>>
  /\ UNCHANGED <<ingestVars, auxVars>>

\* api/chat.py:108-115 multi_query_retrieve_and_rerank returns its contexts
\* and sources, or raises and the error is stored in the result slot
run_retrieval_result(contexts, error) ==
  /\ ret_pc = "running"
  /\ retrieval_result' = [contexts |-> IF error THEN 0 ELSE contexts,
                          error |-> error]
  /\ ret_pc' = "finally"
  /\ UNCHANGED <<chats, messages, variant, http_status, req_count, req_chat,
                 produced, thinking_queue, retrieval_done, gen_pc, tokens, accumulated_answer, sse>>
  \* rag_service.py:152-185 _load_parents_from_chunks: every context is
  \* loaded through db.query(Document)
  /\ IF contexts > 0 /\ ~error
       THEN session_used_by("retrieval")
       ELSE UNCHANGED <<ingestVars, auxVars>>

\* api/chat.py:117 retrieval_done.set()
run_retrieval_set_done ==
  /\ ret_pc = "finally"
  /\ retrieval_done' = TRUE
  /\ ret_pc' = "put_done"
  /\ UNCHANGED <<chats, messages, variant, http_status, req_count, req_chat,
                 produced, thinking_queue, retrieval_result, gen_pc, tokens, accumulated_answer, sse>>
  /\ UNCHANGED <<ingestVars, auxVars>>

\* api/chat.py:118 thinking_queue.put(("done", None))
run_retrieval_put_done ==
  /\ ret_pc = "put_done"
  /\ thinking_queue' = Append(thinking_queue, <<"done", 0>>)
  /\ ret_pc' = "finished"
  /\ UNCHANGED <<chats, messages, variant, http_status, req_count, req_chat,
                 produced, retrieval_done, retrieval_result, gen_pc, tokens, accumulated_answer, sse>>
  /\ UNCHANGED <<ingestVars, auxVars>>

\* the poll step writing each thinking step ahead of the events already
\* written
event_generator_get_front ==
  /\ gen_pc = "poll"
  /\ thinking_queue # <<>>
  /\ thinking_queue' = Tail(thinking_queue)
  /\ IF Head(thinking_queue)[1] = "done"
       THEN gen_pc' = "after" /\ sse' = sse
       ELSE /\ gen_pc' = "poll"
            /\ sse' = <<Event("thinking", Head(thinking_queue)[2], 0, 0, 0)>>
                         \o sse
  /\ UNCHANGED <<chats, messages, variant, http_status, req_count, req_chat,
                 ret_pc, produced, retrieval_done, retrieval_result, tokens, accumulated_answer>>
  /\ UNCHANGED <<ingestVars, auxVars>>

\* api/chat.py:127-131 thinking_queue.get returns an item
event_generator_get ==
  /\ gen_pc = "poll"
  /\ thinking_queue # <<>>
  /\ thinking_queue' = Tail(thinking_queue)
  /\ IF Head(thinking_queue)[1] = "done"
       THEN gen_pc' = "after" /\ sse' = sse
       ELSE /\ gen_pc' = "poll"
            /\ sse' = Append(sse,
                 Event("thinking", Head(thinking_queue)[2], 0, 0, 0))
  /\ UNCHANGED <<chats, messages, variant, http_status, req_count, req_chat,
                 ret_pc, produced, retrieval_done, retrieval_result, tokens, accumulated_answer>>
  /\ UNCHANGED <<ingestVars, auxVars>>

\* api/chat.py:127,132 thinking_queue.get times out on an empty queue
event_generator_empty ==
  /\ gen_pc = "poll"
  /\ thinking_queue = <<>>
  /\ gen_pc' = "empty"
  /\ UNCHANGED <<chats, messages, variant, http_status, req_count, req_chat,
                 ret_pc, produced, thinking_queue, retrieval_done,
                 retrieval_result, tokens, accumulated_answer, sse>>
  /\ UNCHANGED <<ingestVars, auxVars>>

\* thinking steps left on the queue, in queue order
RECURSIVE Drain(_)
Drain(q) ==
  IF q = <<>> THEN <<>>
  ELSE IF Head(q)[1] = "thinking"
    THEN <<Event("thinking", Head(q)[2], 0, 0, 0)>> \o Drain(Tail(q))
    ELSE Drain(Tail(q))

\* the queue.Empty handler.  api/chat.py:132-134 leaves the loop as soon as
\* retrieval_done is set; main.py:639-648 first empties the queue, emitting
\* the thinking steps still on it.
event_generator_check_done ==
  /\ gen_pc = "empty"
  /\ IF retrieval_done
       THEN /\ gen_pc' = "after"
            /\ IF variant = "main"
                 THEN sse' = sse \o Drain(thinking_queue) /\ thinking_queue' = <<>>
                 ELSE UNCHANGED <<sse, thinking_queue>>
       ELSE /\ gen_pc' = "poll"
            /\ UNCHANGED <<sse, thinking_queue>>
  /\ UNCHANGED <<chats, messages, variant, http_status, req_count, req_chat,
                 ret_pc, produced, retrieval_done, retrieval_result, tokens, accumulated_answer>>
  /\ UNCHANGED <<ingestVars, auxVars>>

\* the except block of event_generator.  main.py:705-708 rolls back and
\* yields the error event.  api/chat.py:178-181 rolls back and evaluates
\* str(exc): exc is a local of the enclosing function that is unbound on this
\* path (it is bound only inside the handler's own except clause, and deleted
\* at its end), so a NameError leaves the generator and no event is written.
StreamingFailed ==
  IF variant = "main"
    THEN sse' = Append(sse, Event("error", 0, 0, 0, 0)) /\ gen_pc' = "closed"
    ELSE sse' = sse /\ gen_pc' = "aborted"

\* the empty-contexts branch without its return: control falls through to
\* answer generation
no_contexts_answer_fallthrough ==
  /\ gen_pc' = "streaming"
  /\ UNCHANGED <<messages, sse>>

\* api/chat.py:143-156, main.py:659-676 no contexts: the canned answer is
\* committed as an assistant message and the end event carries its id and
\* an empty sources list, then the generator returns
no_contexts_answer ==
  /\ messages' = Append(messages,
        Message(Len(messages) + 1, req_chat, "assistant", "canned",
                CannedAnswer, req_count))
  /\ sse' = Append(sse, Event("end", 0, CannedAnswer, 0, Len(messages) + 1))
  /\ gen_pc' = "closed"

\* api/chat.py:136-156, main.py:652-676 after the loop: the error slot, the
\* empty-contexts answer, or the start of answer generation
event_generator_after ==
  /\ gen_pc = "after"
  /\ IF retrieval_result.error
       THEN StreamingFailed /\ UNCHANGED messages
     ELSE IF retrieval_result.contexts = 0
       THEN no_contexts_answer
     ELSE /\ gen_pc' = "streaming"
          /\ UNCHANGED <<messages, sse>>
  /\ UNCHANGED <<chats, variant, http_status, req_count, req_chat, ret_pc,
                 produced, thinking_queue, retrieval_done, retrieval_result,
                 tokens, accumulated_answer>>
  \* api/chat.py:148-150 db.add/commit/refresh, api/chat.py:179 db.rollback
  /\ IF retrieval_result.error \/ retrieval_result.contexts = 0
       THEN session_used_by("generator")
       ELSE UNCHANGED <<ingestVars, auxVars>>

\* the loop body putting each token in front of accumulated_answer
event_generator_token_prepended(token) ==
  /\ gen_pc = "streaming"
  /\ tokens < MaxTokens
  /\ tokens' = tokens + 1
  /\ IF token # <<>>
       THEN /\ accumulated_answer' = token \o accumulated_answer
            /\ sse' = Append(sse, Event("chunk", 0, token, 0, 0))
       ELSE UNCHANGED <<accumulated_answer, sse>>
  /\ UNCHANGED <<chats, messages, variant, http_status, req_count, req_chat,
                 ret_pc, produced, thinking_queue, retrieval_done,
                 retrieval_result, gen_pc>>
  /\ UNCHANGED <<ingestVars, auxVars>>

\* api/chat.py:159-162, main.py:679-684 one token of generate_answer_stream:
\* a non-empty token is appended to accumulated_answer and sent as a chunk
\* event, an empty one is skipped
event_generator_token(token) ==
  /\ gen_pc = "streaming"
  /\ tokens < MaxTokens
  /\ tokens' = tokens + 1
  /\ IF token # <<>>
       THEN /\ accumulated_answer' = accumulated_answer \o token
            /\ sse' = Append(sse, Event("chunk", 0, token, 0, 0))
       ELSE UNCHANGED <<accumulated_answer, sse>>
  /\ UNCHANGED <<chats, messages, variant, http_status, req_count, req_chat,
                 ret_pc, produced, thinking_queue, retrieval_done,
                 retrieval_result, gen_pc>>
  /\ UNCHANGED <<ingestVars, auxVars>>

\* rag_service.py:648-662 generate_answer_stream raises (LLM failure)
event_generator_stream_error ==
  /\ gen_pc = "streaming"
  /\ StreamingFailed
  /\ UNCHANGED <<chats, messages, variant, http_status, req_count, req_chat,
                 ret_pc, produced, thinking_queue, retrieval_done,
                 retrieval_result, tokens, accumulated_answer>>
  \* api/chat.py:179 db.rollback
  /\ session_used_by("generator")

\* api/chat.py:164-176 the stream is exhausted: the assistant message is
\* committed and the end event carries the answer, the sources and its id
event_generator_end ==
  /\ gen_pc = "streaming"
  /\ messages' = Append(messages,
        Message(Len(messages) + 1, req_chat, "assistant", "answer",
                accumulated_answer, req_count))
  /\ sse' = Append(sse, Event("end", 0, accumulated_answer,
                             retrieval_result.contexts,
                             Len(messages) + 1))
  /\ gen_pc' = "closed"
  /\ UNCHANGED <<chats, variant, http_status, req_count, req_chat, ret_pc,
                 produced, thinking_queue, retrieval_done, retrieval_result,
                 tokens, accumulated_answer>>
  \* api/chat.py:167-169 db.add/commit/refresh
  /\ session_used_by("generator")

\* the response is complete and the retrieval thread has ended: the
\* request's locals are dropped
request_complete ==
  /\ gen_pc \in {"closed", "aborted"}
  /\ ret_pc = "finished"
  /\ req_count < MaxRequests
  /\ gen_pc' = "none"
  /\ ret_pc' = "none"
  /\ produced' = 0
  /\ thinking_queue' = <<>>
  /\ retrieval_done' = FALSE
  /\ retrieval_result' = NoResult
  /\ tokens' = 0
  /\ accumulated_answer' = <<>>
  /\ sse' = <<>>
  /\ UNCHANGED <<chats, messages, variant, http_status, req_count, req_chat>>
  /\ UNCHANGED <<ingestVars, auxVars>>

\* ------------------------------------------------- specifications
vars == <<ingestVars, chatVars, auxVars>>

WorkerStep ==
  \/ \E t \in Threads : processing_loop_initial(t)
  \/ \E t \in Threads : processing_loop_iteration(t)
  \/ processing_loop_wake
  \/ processing_loop_timeout
  \/ \E t \in Threads : process_documents_query(t)
  \/ \E t \in Threads : process_documents_refresh(t)
  \/ \E t \in Threads : process_documents_complete(t)
  \/ \E t \in Threads : process_documents_except(t)
  \/ \E t \in Threads : pipeline_extract(t)
  \/ \E t \in Threads, n \in 0..MaxChunks : pipeline_chunk(t, n)
  \/ \E t \in Threads : pipeline_reset(t)
  \/ \E t \in Threads : pipeline_add(t)
  \/ \E t \in Threads : pipeline_finalize(t)
  \/ \E t \in Threads : pipeline_fail(t)

IngestStep ==
  \/ lifespan_startup
  \/ lifespan_shutdown
  \/ process_exit
  \/ \E name \in Names : upload_document(name)
  \/ \E d \in Ids : reprocess_document(d)
  \/ \E d \in Ids, coll_ok \in BOOLEAN : delete_document(d, coll_ok)
  \/ \E name \in Names, downloaded \in BOOLEAN : sync_single_item(name, downloaded)
  \/ WorkerStep

Next == IngestStep

Spec == Init /\ [][Next]_vars


\* ------------------------------------------------- the worker's interface
\* The worker of a running application driven through its public methods
\* in any order: start(), stop(), trigger_check() from a coroutine and from
\* a plain thread, with uploads supplying documents (a Zotero sync queues
\* rows the way an upload does).
InitWorker ==
  /\ documents = EmptyMap
  /\ next_id = 1
  /\ files = {}
  /\ side_store = {}
  /\ collections = EmptyMap
  /\ processing_status = EmptyMap
  /\ currently_processing_doc_id = NoDoc
  /\ app = "up"
  /\ running = FALSE
  /\ has_event = FALSE
  /\ event_set = FALSE
  /\ loop_stuck = FALSE
  /\ task_pc = "none"
  /\ task_thread = 0
  /\ thr = [t \in Threads |-> IdleThread]
  /\ terminal = {}
  /\ trigger_pending = FALSE
  /\ stopped_during = [t \in Threads |-> NoDoc]
  /\ ChatInit
  /\ AuxInit

\* worker.py:35-44 await worker.start()
worker_start ==
  /\ start
  /\ UNCHANGED <<dbVars, diskVars, obsVars, app, thr, histVars>>
  /\ UNCHANGED <<chatVars, auxVars>>

\* worker.py:46-54 await worker.stop()
worker_stop ==
  /\ running
  /\ stop
  /\ UNCHANGED <<dbVars, diskVars, obsVars, app, thr, terminal>>
  /\ UNCHANGED <<chatVars, auxVars>>

\* worker.py:56-65 worker.trigger_check() called on the event loop
worker_trigger_check_async ==
  /\ running
  /\ trigger_check_async
  /\ UNCHANGED <<dbVars, diskVars, obsVars, app, thr, terminal,
                 stopped_during>>
  /\ UNCHANGED <<chatVars, auxVars>>

\* worker.py:56-59, 66-78 worker.trigger_check() called from a thread
\* without a running loop
worker_trigger_check_sync(stuck) ==
  /\ running
  /\ trigger_check_sync(stuck)
  /\ UNCHANGED <<dbVars, diskVars, obsVars, app, thr, terminal,
                 stopped_during>>
  /\ UNCHANGED <<chatVars, auxVars>>

NextWorker ==
  \/ worker_start
  \/ worker_stop
  \/ worker_trigger_check_async
  \/ \E stuck \in BOOLEAN : worker_trigger_check_sync(stuck)
  \/ \E name \in Names : upload_document(name)
  \/ WorkerStep

SpecWorker == InitWorker /\ [][NextWorker]_vars

\* ------------------------------------------------- the query controller
\* a running application with one ingested document (or none)
InitChat ==
  /\ \/ /\ documents = EmptyMap
        /\ next_id = 1
        /\ files = {}
        /\ side_store = {}
        /\ collections = EmptyMap
     \/ /\ documents = Put(EmptyMap, 1,
              [NewDocument(1, "uploads") EXCEPT !.pickle_path = TRUE,
                                                !.processed = TRUE,
                                                !.num_chunks = 1])
        /\ next_id = 2
        /\ files = {<<"uploads", 1>>}
        /\ side_store = {1}
        /\ collections = Put(EmptyMap, 1, 1)
  /\ processing_status = EmptyMap
  /\ currently_processing_doc_id = NoDoc
  /\ app = "up"
  /\ running = TRUE
  /\ has_event = TRUE
  /\ event_set = FALSE
  /\ loop_stuck = FALSE
  /\ task_pc = "sleeping"
  /\ task_thread = 0
  /\ thr = [t \in Threads |-> IdleThread]
  /\ terminal = {}
  /\ trigger_pending = FALSE
  /\ stopped_during = [t \in Threads |-> NoDoc]
  /\ ChatInit
  /\ AuxInit

Variants == {"api.chat", "main"}

NextChat ==
  \/ create_chat
  \/ \E d \in Ids, enabled \in BOOLEAN : update_preferences(d, enabled)
  \/ \E chat_id \in 1..(MaxChats + 1), v \in Variants :
        query_documents_stream(chat_id, v)
  \/ run_retrieval_thinking
  \/ \E contexts \in 0..MaxContexts, error \in BOOLEAN :
        run_retrieval_result(contexts, error)
  \/ run_retrieval_set_done
  \/ run_retrieval_put_done
  \/ event_generator_get
  \/ event_generator_empty
  \/ event_generator_check_done
  \/ event_generator_after
  \/ \E token \in Tokens : event_generator_token(token)
  \/ event_generator_stream_error
  \/ event_generator_end
  \/ request_complete

SpecChat == InitChat /\ [][NextChat]_vars

\* ------------------------------------------------- zotero sync and poller
\* A running application with its worker loop asleep between passes, an
\* external library that changes, sync requests to either service and
\* poller ticks.  Rows become processed here through the older service,
\* which processes inline.
InitSync ==
  /\ documents = EmptyMap
  /\ next_id = 1
  /\ files = {}
  /\ side_store = {}
  /\ collections = EmptyMap
  /\ processing_status = EmptyMap
  /\ currently_processing_doc_id = NoDoc
  /\ app = "up"
  /\ running = TRUE
  /\ has_event = TRUE
  /\ event_set = FALSE
  /\ loop_stuck = FALSE
  /\ task_pc = "sleeping"
  /\ task_thread = 0
  /\ thr = [t \in Threads |-> IdleThread]
  /\ terminal = {}
  /\ trigger_pending = FALSE
  /\ stopped_during = [t \in Threads |-> NoDoc]
  /\ ChatInit
  /\ AuxInit

\* the application right after its startup: the worker task is created
\* (worker.py:35-44) and has not run its initial pass yet
InitStarted ==
  /\ documents = EmptyMap
  /\ next_id = 1
  /\ files = {}
  /\ side_store = {}
  /\ collections = EmptyMap
  /\ processing_status = EmptyMap
  /\ currently_processing_doc_id = NoDoc
  /\ app = "up"
  /\ running = TRUE
  /\ has_event = TRUE
  /\ event_set = FALSE
  /\ loop_stuck = FALSE
  /\ task_pc = "initial"
  /\ task_thread = 0
  /\ thr = [t \in Threads |-> IdleThread]
  /\ terminal = {}
  /\ trigger_pending = FALSE
  /\ stopped_during = [t \in Threads |-> NoDoc]
  /\ ChatInit
  /\ AuxInit

Downloads == [ItemKeys -> BOOLEAN]

NextSync ==
  \/ \E item \in Items, add \in BOOLEAN : library_change(item, add)
  \/ \E mode \in {"all", "new"}, svc \in SyncServices, ok \in Downloads,
        pref \in Ids, n \in 1..MaxChunks :
        zotero_sync(mode, svc, ok, pref, n)
  \/ \E auto_sync \in BOOLEAN, ok \in Downloads, pref \in Ids :
        sync_check_documents(auto_sync, ok, pref)

SpecSync == InitSync /\ [][NextSync]_vars

\* ------------------------------------------------- sync calls and poller ticks
\* a running application whose documents table is empty or holds one
\* upload (ingested or not)
InitSyncRun ==
  /\ \E row \in {[NewDocument(1, "uploads") EXCEPT !.processed = p] :
                   p \in BOOLEAN} :
       \/ /\ documents = EmptyMap
          /\ next_id = 1
          /\ files = {}
       \/ /\ documents = Put(EmptyMap, 1, row)
          /\ next_id = 2
          /\ files = {<<"uploads", 1>>}
  /\ side_store = {}
  /\ collections = EmptyMap
  /\ processing_status = EmptyMap
  /\ currently_processing_doc_id = NoDoc
  /\ app = "up"
  /\ running = TRUE
  /\ has_event = TRUE
  /\ event_set = FALSE
  /\ loop_stuck = FALSE
  /\ task_pc = "sleeping"
  /\ task_thread = 0
  /\ thr = [t \in Threads |-> IdleThread]
  /\ terminal = {}
  /\ trigger_pending = FALSE
  /\ stopped_during = [t \in Threads |-> NoDoc]
  /\ ChatInit
  /\ AuxInit

NextSyncRun ==
  \/ \E item \in Items, add \in BOOLEAN : library_change(item, add)
  \/ \E mode \in {"all", "new"} : api_sync_begin(mode)
  \/ \E pref \in Ids : sync_single_item_query(pref)
  \/ \E downloaded \in BOOLEAN : sync_single_item_store(downloaded)
  \/ api_sync_return
  \/ \E auto_sync \in BOOLEAN, ok \in Downloads, pref \in Ids :
        sync_check_documents(auto_sync, ok, pref)
  \/ \E name \in Names : upload_on_loop(name)

SpecSyncRun == InitSyncRun /\ [][NextSyncRun]_vars

\* ------------------------------------------------- document deletion
\* A running application: uploads, the worker ingesting them, and DELETE
\* requests to each of the three handlers with every outcome of the four
\* deletions.
NextDelete ==
  \/ \E name \in Names : upload_document(name)
  \/ \E d \in Ids, v \in DeleteVariants,
        db_ok \in BOOLEAN, coll_ok \in BOOLEAN,
        pickle_ok \in BOOLEAN, file_ok \in BOOLEAN :
        delete_document_request(d, v, db_ok, coll_ok, pickle_ok, file_ok)
  \/ WorkerStep

SpecDelete == InitStarted /\ [][NextDelete]_vars

\* ------------------------------------------------- deletion during an ingest
\* Uploads, the worker ingesting them in its executor thread, and DELETE
\* requests to api/documents.py whose every deletion succeeds, so that what
\* a request leaves behind is left by the interleaving alone.
NextDeleteRace ==
  \/ \E name \in Names : upload_document(name)
  \/ \E d \in Ids : delete_document(d, TRUE)
  \/ WorkerStep

SpecDeleteRace == InitStarted /\ [][NextDeleteRace]_vars

\* ------------------------------------------------- reprocess
\* the unchanged source file yields the same number of chunks at every run
FileChunks == MaxChunks

\* A running application at rest with one document that went through the
\* pipeline before: ingested, or marked failed (worker.py:215-233).
InitReprocess ==
  /\ \/ /\ documents = Put(EmptyMap, 1,
              [NewDocument(1, "uploads") EXCEPT !.pickle_path = TRUE,
                                                !.processed = TRUE,
                                                !.num_chunks = FileChunks])
        /\ side_store = {1}
        /\ collections = Put(EmptyMap, 1, FileChunks)
        /\ terminal = {}
     \/ /\ documents = Put(EmptyMap, 1, mark_failed(NewDocument(1, "uploads")))
        /\ side_store = {}
        /\ collections = EmptyMap
        /\ terminal = {1}
  /\ next_id = 2
  /\ files = {<<"uploads", 1>>}
  /\ processing_status = EmptyMap
  /\ currently_processing_doc_id = NoDoc
  /\ app = "up"
  /\ running = TRUE
  /\ has_event = TRUE
  /\ event_set = FALSE
  /\ loop_stuck = FALSE
  /\ task_pc = "sleeping"
  /\ task_thread = 0
  /\ thr = [t \in Threads |-> IdleThread]
  /\ trigger_pending = FALSE
  /\ stopped_during = [t \in Threads |-> NoDoc]
  /\ ChatInit
  /\ AuxInit

\* reprocess requests, uploads and the worker; every pipeline run succeeds
\* and chunks the file into FileChunks chunks
NextReprocess ==
  \/ \E d \in Ids : reprocess_document_logged(d)
  \/ \E name \in Names : upload_document(name)
  \/ \E t \in Threads : processing_loop_iteration(t)
  \/ processing_loop_wake
  \/ processing_loop_timeout
  \/ \E t \in Threads : process_documents_query(t)
  \/ \E t \in Threads : process_documents_refresh(t)
  \/ \E t \in Threads : process_documents_complete(t)
  \/ \E t \in Threads : pipeline_extract(t)
  \/ \E t \in Threads : pipeline_chunk(t, FileChunks)
  \/ \E t \in Threads : pipeline_reset(t)
  \/ \E t \in Threads : pipeline_add(t)
  \/ \E t \in Threads : pipeline_finalize(t)

SpecReprocess == InitReprocess /\ [][NextReprocess]_vars

\* ------------------------------------------------- document list
\* uploads, the worker ingesting them, and GET /documents at any moment
NextList ==
  \/ \E name \in Names : upload_document(name)
  \/ list_documents
  \/ WorkerStep

SpecList == InitStarted /\ [][NextList]_vars

\* ------------------------------------------------- startup reconciliation
\* The application is down.  The database holds rows that were uploaded,
\* ingested or marked failed; the vector store holds any collections: some
\* lost or emptied out-of-band, some orphaned by deleted documents, some
\* without the prefix.
RowKinds ==
  {NewDocument(1, "uploads"),
   [NewDocument(1, "uploads") EXCEPT !.pickle_path = TRUE, !.processed = TRUE,
                                     !.num_chunks = FileChunks],
   mark_failed(NewDocument(1, "uploads"))}

Highest(S) == IF S = {} THEN 0 ELSE CHOOSE x \in S : \A y \in S : y <= x

InitStartup ==
  /\ \E D \in SUBSET Ids : documents \in [D -> RowKinds]
  /\ \E S \in SUBSET Ids : collections \in [S -> 0..MaxChunks]
  /\ next_id = Highest(DOMAIN documents \cup DOMAIN collections) + 1
  /\ files = IF documents = EmptyMap THEN {} ELSE {<<"uploads", 1>>}
  /\ side_store = {d \in DOMAIN documents : documents[d].pickle_path}
  /\ processing_status = EmptyMap
  /\ currently_processing_doc_id = NoDoc
  /\ app = "down"
  /\ running = FALSE
  /\ has_event = FALSE
  /\ event_set = FALSE
  /\ loop_stuck = FALSE
  /\ task_pc = "none"
  /\ task_thread = 0
  /\ thr = [t \in Threads |-> IdleThread]
  /\ terminal = {d \in DOMAIN documents : documents[d].num_chunks = -1}
  /\ trigger_pending = FALSE
  /\ stopped_during = [t \in Threads |-> NoDoc]
  /\ ChatInit
  /\ library = {}
  /\ last_sync = NoSync
  /\ poller_log = NoTick
  /\ delete_log = NoDelete
  /\ reprocess_log = EmptyMap
  /\ other_collections \in SUBSET OtherNames
  /\ startup_log = NoStartup
  /\ listing = NoListing
  /\ session_threads = {}
  /\ PureInit

NextStartup ==
  \/ \E list_ok \in BOOLEAN, failing \in SUBSET PrefixedNames :
        lifespan_startup_logged(list_ok, failing)
  \/ \E name \in Names : upload_document(name)
  \/ WorkerStep

SpecStartup == InitStartup /\ [][NextStartup]_vars

\* The event loop runs the worker task and the executor runs its pass
\* (worker.py:83-131): a worker step that stays possible is taken.
SpecStartupFair == SpecStartup /\ WF_vars(WorkerStep)

\* ------------------------------------------------- query expansion
\* RAGService.generate_query_variations and its TTLCache
\* (rag_service.py:242-297).  Texts are strings; "" is a line that is empty
\* after strip().
MaxQueries == 2
MaxLines == 4
MaxTime == 3
\* settings.query_expansion_cache_size / _ttl, scaled down
query_expansion_cache_size == 1
query_expansion_cache_ttl == 2

QueryTexts == <<"q1", "q2", "q3", "q4">>
Queries == {QueryTexts[i] : i \in 1..MaxQueries}
Lines == {"", "a", "b"}
Responses == UNION {[1..n -> Lines] : n \in 0..MaxLines}

Take(seq, n) == SubSeq(seq, 1, IF Len(seq) < n THEN Len(seq) ELSE n)

\* every non-empty line of the answer, without the slice [:3]
generate_queries_from_llm_unsliced(ok, response, original_query) ==
  IF ~ok THEN <<original_query>>
  ELSE LET queries == SelectSeq(response, LAMBDA l : l # "")
       IN IF queries = <<>> THEN <<original_query>> ELSE queries

\* rag_service.py:263-276: the first three non-empty lines of the answer;
\* the original query alone when there is none or the call raises
generate_queries_from_llm(ok, response, original_query) ==
  IF ~ok THEN <<original_query>>
  ELSE LET queries == Take(SelectSeq(response, LAMBDA l : l # ""), 3)
       IN IF queries = <<>> THEN <<original_query>> ELSE queries

\* `while len(result) < 3: result.append(original_query)`
RECURSIVE pad_with_original(_, _)
pad_with_original(result, original_query) ==
  IF Len(result) >= 3 THEN result
  ELSE pad_with_original(Append(result, original_query), original_query)

\* cachetools.TTLCache: an entry is visible while timer() < expires
cache_live(cache, t) == SelectSeq(cache, LAMBDA e : t < e.expires)
cache_contains(cache, t, key) ==
  \E i \in 1..Len(cache) : cache[i].key = key /\ t < cache[i].expires
cache_entry(cache, t, key) ==
  cache[CHOOSE i \in 1..Len(cache) :
          cache[i].key = key /\ t < cache[i].expires]
\* TTLCache.__setitem__: expired entries go first, then the oldest ones
\* until the new entry fits in maxsize
cache_set(cache, t, key, value) ==
  LET others == SelectSeq(cache_live(cache, t), LAMBDA e : e.key # key)
      keep == query_expansion_cache_size - 1
      room == IF Len(others) > keep
                THEN SubSeq(others, Len(others) - keep + 1, Len(others))
                ELSE others
  IN Append(room, [key |-> key, value |-> value,
                   expires |-> t + query_expansion_cache_ttl])

\* rag_service.py:278-297 without line 296: the result is not stored
generate_query_variations_unstored(cache, t, original_query, ok, response) ==
  IF cache_contains(cache, t, original_query)
    THEN [result |-> cache_entry(cache, t, original_query).value,
          cache |-> cache, llm_calls |-> 0,
          cached_at |-> cache_entry(cache, t, original_query).expires
                          - query_expansion_cache_ttl]
    ELSE [result |-> pad_with_original(
                       Take(generate_queries_from_llm(ok, response,
                                                      original_query), 3),
                       original_query),
          cache |-> cache, llm_calls |-> 1, cached_at |-> t]

\* rag_service.py:278-297
generate_query_variations(cache, t, original_query, ok, response) ==
  IF cache_contains(cache, t, original_query)
    THEN [result |-> cache_entry(cache, t, original_query).value,
          cache |-> cache, llm_calls |-> 0,
          cached_at |-> cache_entry(cache, t, original_query).expires
                          - query_expansion_cache_ttl]
    ELSE LET variations == generate_queries_from_llm(ok, response,
                                                     original_query)
             result == pad_with_original(Take(variations, 3), original_query)
         IN [result |-> result,
             cache |-> cache_set(cache, t, original_query, result),
             llm_calls |-> 1, cached_at |-> t]

\* one call of generate_query_variations; `ok` and `response` are the
\* outcome of llm_sync.invoke should the call reach it
query_expansion(original_query, ok, response) ==
  LET r == generate_query_variations(query_expansion_cache, clock,
                                     original_query, ok, response)
  IN /\ query_expansion_cache' = r.cache
     /\ last_expansion' = [query |-> original_query, result |-> r.result,
                           llm_calls |-> r.llm_calls,
                           cached_at |-> r.cached_at,
                           seq |-> 1 - last_expansion.seq]
     /\ UNCHANGED <<clock, notExpandVars>>

\* time passes
clock_tick ==
  /\ clock < MaxTime
  /\ clock' = clock + 1
  /\ UNCHANGED <<query_expansion_cache, last_expansion, notExpandVars>>

NextExpand ==
  \/ \E q \in Queries, ok \in BOOLEAN, response \in Responses :
        query_expansion(q, ok, response)
  \/ clock_tick

SpecExpand == Init /\ [][NextExpand]_vars

\* ------------------------------------------------- sparse embedding
\* SparseEmbedding (embeddings.py:19-82).  A text is its token list (the
\* result of _tokenize).  hash() of a str is keyed by a value the
\* interpreter draws when it starts: hash_seed is the function of the
\* current process.
MaxWords == 2
MaxTextLen == 2
MaxHash == 2
\* SparseEmbedding(vocab_size=30000), scaled down
vocab_size == 3

WordTexts == <<"alpha", "beta", "gamma">>
Words == {WordTexts[i] : i \in 1..MaxWords}
HashValues == (0 - MaxHash)..MaxHash
HashSeeds == [Words -> HashValues]
Texts == UNION {[1..n -> Words] : n \in 0..MaxTextLen}

\* embeddings.py:40-42; Python's % with a positive modulus is in [0, m)
hash_token(seed, token) == seed[token] % vocab_size

\* Counter(tokens)[token]
term_count(toks, token) ==
  Cardinality({i \in 1..Len(toks) : toks[i] = token})

\* embeddings.py:44-82.  The value (1 + log(count)) / sqrt(total) grows
\* with count for a given text, so it is kept as the pair count, total; on
\* a collision the larger value stays.  The result maps index -> value.
embed(seed, toks) ==
  LET tf == {toks[i] : i \in 1..Len(toks)}
      indices == {hash_token(seed, token) : token \in tf}
      best(idx) == CHOOSE c \in {term_count(toks, token) :
                                   token \in {w \in tf :
                                                hash_token(seed, w) = idx}} :
                     \A token \in tf : hash_token(seed, token) = idx
                                         => term_count(toks, token) <= c
  IN [idx \in indices |-> <<best(idx), Len(toks)>>]

\* the interpreter starts (first start or restart of the backend)
process_start ==
  /\ \E seed \in HashSeeds : hash_seed' = seed
  /\ UNCHANGED <<sparse_point, sparse_query, notSparseVars>>

\* vector_store.py:213-214 / embeddings.py:250: a chunk is indexed
add_documents_sparse(text) ==
  /\ hash_seed # NoProcess
  /\ sparse_point' = [text |-> text, vector |-> embed(hash_seed, text),
                      seq |-> 1 - sparse_point.seq]
  /\ UNCHANGED <<hash_seed, sparse_query, notSparseVars>>

\* vector_store.py:299 / embeddings.py:311: a query is embedded
search_sparse(text) ==
  /\ hash_seed # NoProcess
  /\ sparse_query' = [text |-> text, vector |-> embed(hash_seed, text),
                      seq |-> 1 - sparse_query.seq]
  /\ UNCHANGED <<hash_seed, sparse_point, notSparseVars>>

NextSparse ==
  \/ process_start
  \/ \E text \in Texts : add_documents_sparse(text)
  \/ \E text \in Texts : search_sparse(text)

SpecSparse == Init /\ [][NextSparse]_vars

\* ------------------------------------------------- reranker
\* RerankerService.rerank and _calculate_dynamic_threshold
\* (reranker.py:12-115).  A score is an integer number of hundredths; the
\* input of rerank is the list of the scores model.predict gives to the
\* documents, a document is its position in that list.  mean and std are
\* exact: with n scores of sum S and sum of squares Q, mean = S/n and
\* std = sqrt(n*Q - S*S)/n, and every comparison is multiplied out.
MaxRerankDocs == 3
MaxTopK == 2
BASE_THRESHOLD == 20
ScoreValues == {0 - 40, 0, 25, 50, 60, 95}
ScoreLists == UNION {[1..n -> ScoreValues] : n \in 0..MaxRerankDocs}

RECURSIVE SumSeq(_)
SumSeq(seq) == IF seq = <<>> THEN 0 ELSE Head(seq) + SumSeq(Tail(seq))
SquareSum(seq) == SumSeq([i \in 1..Len(seq) |-> seq[i] * seq[i]])
\* n*n*variance
ScaledVariance(scores) ==
  Len(scores) * SquareSum(scores) - SumSeq(scores) * SumSeq(scores)
MaxScore(scores) ==
  CHOOSE m \in {scores[i] : i \in 1..Len(scores)} :
    \A i \in 1..Len(scores) : scores[i] <= m
\* sorted_scores[0] - sorted_scores[1]
top_gap(scores) ==
  LET top == CHOOSE i \in 1..Len(scores) : scores[i] = MaxScore(scores)
  IN MaxScore(scores)
       - MaxScore([j \in 1..(Len(scores) - 1) |->
                     IF j < top THEN scores[j] ELSE scores[j + 1]])

\* reranker.py:14-44, the second component of the result
threshold_reason(scores) ==
  LET n == Len(scores)
      S == SumSeq(scores)
  IN IF n = 0 THEN "no_scores"
     ELSE IF n >= 2 /\ top_gap(scores) > 30 THEN "clear_winner"
     ELSE IF S > 50 * n THEN "high_quality_results"
     ELSE IF ScaledVariance(scores) > 400 * n * n THEN "high_variance"
     ELSE IF MaxScore(scores) < 30 THEN "low_quality_all"
     ELSE "adaptive"

\* score >= mean - k * std with k = num/2, multiplied out
above_mean_less_std(scores, score, num) ==
  LET under == SumSeq(scores) - Len(scores) * score
  IN \/ under <= 0
     \/ num * num * ScaledVariance(scores) >= 4 * under * under

\* score >= threshold with the low-quality threshold held at
\* BASE_THRESHOLD or above
reaches_threshold_with_floor(scores, score) ==
  LET reason == threshold_reason(scores)
  IN CASE reason = "no_scores" -> score >= BASE_THRESHOLD
       [] reason = "clear_winner" -> score >= MaxScore(scores) - 1
       [] reason = "high_quality_results" ->
            score >= BASE_THRESHOLD /\ above_mean_less_std(scores, score, 1)
       [] reason = "high_variance" ->
            score >= BASE_THRESHOLD
              /\ Len(scores) * score >= SumSeq(scores)
       [] reason = "low_quality_all" ->
            score >= BASE_THRESHOLD /\ 2 * score >= MaxScore(scores)
       [] OTHER ->
            score >= BASE_THRESHOLD /\ above_mean_less_std(scores, score, 2)

\* reranker.py:14-44 and 104: score >= threshold, for the threshold that
\* _calculate_dynamic_threshold returns as first component
reaches_threshold(scores, score) ==
  LET reason == threshold_reason(scores)
  IN CASE reason = "no_scores" -> score >= BASE_THRESHOLD
       [] reason = "clear_winner" -> score >= MaxScore(scores) - 1
       [] reason = "high_quality_results" ->
            score >= BASE_THRESHOLD /\ above_mean_less_std(scores, score, 1)
       [] reason = "high_variance" ->
            score >= BASE_THRESHOLD
              /\ Len(scores) * score >= SumSeq(scores)
       [] reason = "low_quality_all" -> 2 * score >= MaxScore(scores)
       [] OTHER ->
            score >= BASE_THRESHOLD /\ above_mean_less_std(scores, score, 2)

\* sorted(documents, key=rerank_score, reverse=True): stable, so equal
\* scores keep the order of the input.  The result lists positions.
RECURSIVE sorted_by_score(_, _)
sorted_by_score(scores, left) ==
  IF left = {} THEN <<>>
  ELSE LET first == CHOOSE i \in left :
                      \A j \in left : \/ scores[j] < scores[i]
                                      \/ scores[j] = scores[i] /\ i <= j
       IN <<first>> \o sorted_by_score(scores, left \ {first})

\* the returned documents: the first one carries threshold_reason
tagged(scores, order, reason) ==
  [k \in 1..Len(order) |->
     [doc |-> order[k], rerank_score |-> scores[order[k]],
      threshold_reason |-> IF k = 1 THEN reason ELSE ""]]

\* reranker.py:83-115 without the branch of lines 110-113
rerank_without_fallback(scores, top_k, apply_threshold) ==
  IF scores = <<>> THEN <<>>
  ELSE LET reranked == sorted_by_score(scores, 1..Len(scores))
           filtered == SelectSeq(reranked,
                         LAMBDA i : reaches_threshold(scores, scores[i]))
       IN IF apply_threshold
            THEN Take(tagged(scores, filtered, threshold_reason(scores)),
                      top_k)
            ELSE Take(tagged(scores, reranked, ""), top_k)

\* reranker.py:83-115
rerank(scores, top_k, apply_threshold) ==
  IF scores = <<>> THEN <<>>
  ELSE LET reranked == sorted_by_score(scores, 1..Len(scores))
           filtered == SelectSeq(reranked,
                         LAMBDA i : reaches_threshold(scores, scores[i]))
       IN IF apply_threshold /\ filtered # <<>>
            THEN Take(tagged(scores, filtered, threshold_reason(scores)),
                      top_k)
          ELSE IF apply_threshold
            THEN Take(tagged(scores, reranked, "fallback_below_threshold"),
                      1)
          ELSE Take(tagged(scores, reranked, ""), top_k)

\* a call of rerank with its arguments
InitRerank ==
  /\ CoreInit
  /\ NotRerankInit
  /\ \E scores \in ScoreLists, top_k \in 0..MaxTopK,
        apply_threshold \in BOOLEAN :
        rerank_log = [seq |-> 0, scores |-> scores, top_k |-> top_k,
                      apply_threshold |-> apply_threshold, result |-> <<>>]

\* the call returns
rerank_call ==
  /\ rerank_log.seq = 0
  /\ rerank_log' = [rerank_log EXCEPT
                      !.seq = 1,
                      !.result = rerank(rerank_log.scores, rerank_log.top_k,
                                        rerank_log.apply_threshold)]
  /\ UNCHANGED notRerankVars

NextRerank == rerank_call

SpecRerank == InitRerank /\ [][NextRerank]_vars

\* ------------------------------------------------- parent-child chunks
\* DocumentProcessor.process_document (document_processor.py:143-214).
\* A text is a sequence of characters.  parent_docs is the result of
\* _build_parent_chunks; children[p] is what child_splitter.split_text
\* returns for parent p: pieces cut out of the parent text.  Parent ids
\* count from 0 as in the code, sequences from 1.
MaxParents == 2
MaxParentLen == 2
MaxChildren == 2
Chars == {"a", "b"}
ParentTexts == UNION {[1..n -> Chars] : n \in 1..MaxParentLen}
\* metadata_chunk is None, or the text of create_metadata_chunk (which is
\* never empty); `if metadata_chunk:` is false for None
NoMetadata == <<>>
MetadataChunks == {NoMetadata, <<"m">>}

Substrings(text) ==
  {SubSeq(text, i, j) : i \in 1..Len(text), j \in 1..Len(text)} \ {<<>>}
ChildLists(text) == UNION {[1..n -> Substrings(text)] : n \in 0..MaxChildren}
contains(text, piece) == piece = <<>> \/ piece \in Substrings(text)

\* the metadata text put behind the parents instead of in front of them
parent_docs_meta_last(parent_docs, metadata_chunk) ==
  IF metadata_chunk # NoMetadata THEN parent_docs \o <<metadata_chunk>>
  ELSE parent_docs
\* document_processor.py:154-157
parent_docs_with_meta(parent_docs, metadata_chunk) ==
  IF metadata_chunk # NoMetadata THEN <<metadata_chunk>> \o parent_docs
  ELSE parent_docs

\* no shift for the metadata parent
parent_offset_zero(metadata_chunk) == 0
\* document_processor.py:166-181
parent_offset(metadata_chunk) == IF metadata_chunk # NoMetadata THEN 1 ELSE 0

\* document_processor.py:166-177: the metadata chunk, if any
metadata_chunks(metadata_chunk) ==
  IF metadata_chunk # NoMetadata
    THEN <<[text |-> metadata_chunk, parent_id |-> 0, origin |-> 0 - 1,
            section |-> "Document Metadata", chunk_id |-> 0 - 1,
            is_metadata |-> TRUE]>>
    ELSE <<>>

\* document_processor.py:185-206: the child chunks of the parents from
\* position p on; origin is the position of the parent in parent_docs
RECURSIVE content_chunks(_, _, _)
content_chunks(children, p, offset) ==
  IF p > Len(children) THEN <<>>
  ELSE [k \in 1..Len(children[p]) |->
          [text |-> children[p][k], parent_id |-> (p - 1) + offset,
           origin |-> p - 1, section |-> "Body", chunk_id |-> 0,
           is_metadata |-> FALSE]]
       \o content_chunks(children, p + 1, offset)

\* document_processor.py:163-206 and vector_store.py:216: chunk_index is
\* the position in the list; a chunk without chunk_id gets it as chunk_id
numbered(chunks) ==
  [i \in 1..Len(chunks) |->
     [text |-> chunks[i].text, parent_id |-> chunks[i].parent_id,
      origin |-> chunks[i].origin, section |-> chunks[i].section,
      is_metadata |-> chunks[i].is_metadata, chunk_index |-> i - 1,
      chunk_id |-> IF chunks[i].is_metadata THEN chunks[i].chunk_id
                   ELSE i - 1]]

\* document_processor.py:143-214; when the side-store write raises, no
\* chunk is returned
process_document(parent_docs, children, metadata_chunk, write_ok) ==
  IF ~write_ok THEN [persisted |-> <<>>, chunks |-> <<>>]
  ELSE [persisted |-> parent_docs_with_meta(parent_docs, metadata_chunk),
        chunks |-> numbered(metadata_chunks(metadata_chunk)
                     \o content_chunks(children, 1,
                                       parent_offset(metadata_chunk)))]

\* a call of process_document with its arguments and the splitter's output
InitProcess ==
  /\ CoreInit
  /\ NotChunkInit
  /\ \E n \in 0..MaxParents :
       \E parent_docs \in [1..n -> ParentTexts] :
         \E children \in [1..n -> UNION {ChildLists(t) : t \in ParentTexts}],
            metadata_chunk \in MetadataChunks, write_ok \in BOOLEAN :
            /\ \A p \in 1..n : children[p] \in ChildLists(parent_docs[p])
            /\ process_log = [seq |-> 0, parent_docs |-> parent_docs,
                              children |-> children,
                              metadata_chunk |-> metadata_chunk,
                              write_ok |-> write_ok,
                              persisted |-> <<>>, chunks |-> <<>>]

\* the call returns
process_document_call ==
  /\ process_log.seq = 0
  /\ LET r == process_document(process_log.parent_docs, process_log.children,
                               process_log.metadata_chunk,
                               process_log.write_ok)
     IN process_log' = [process_log EXCEPT !.seq = 1,
                                           !.persisted = r.persisted,
                                           !.chunks = r.chunks]
  /\ UNCHANGED notChunkVars

NextProcess == process_document_call

SpecProcess == InitProcess /\ [][NextProcess]_vars

\* ------------------------------------------------- the pending query
\* The query for pending documents of the two workers
\* (ingest/worker.py:128-131, document_processing_worker.py:143-146) on a
\* documents table whose num_chunks may be NULL (the column of
\* models/database.py:43 is nullable).  A condition has the SQL values
\* "true", "false" and "null"; a row is selected when it is "true".
MaxRows == 2
Null == <<>>
NumChunksValues == {Null} \cup {<<n>> : n \in (0 - 1)..MaxChunks}
PendingRows == [processed : BOOLEAN, num_chunks : NumChunksValues]
Workers == {"ingest.worker", "document_processing_worker"}

sql_or(a, b) ==
  IF a = "true" \/ b = "true" THEN "true"
  ELSE IF a = "null" \/ b = "null" THEN "null" ELSE "false"
sql_and(a, b) ==
  IF a = "false" \/ b = "false" THEN "false"
  ELSE IF a = "null" \/ b = "null" THEN "null" ELSE "true"
\* column >= n
sql_ge(column, n) ==
  IF column = Null THEN "null"
  ELSE IF column[1] >= n THEN "true" ELSE "false"
\* column IS NULL, which `Document.num_chunks == None` compiles to
sql_is_null(column) == IF column = Null THEN "true" ELSE "false"
\* `Document.num_chunks is None` is evaluated by Python before the query
\* is built: the attribute is not the object None, so or_ receives False
python_is_none(column) == "false"
\* Document.processed == False
sql_is_false(flag) == IF flag THEN "false" ELSE "true"

\* ingest/worker.py:128-131
pending_filter_ingest(row) ==
  sql_and(sql_is_false(row.processed),
          sql_or(python_is_none(row.num_chunks), sql_ge(row.num_chunks, 0)))
\* document_processing_worker.py:143-146
pending_filter_legacy(row) ==
  sql_and(sql_is_false(row.processed),
          sql_or(sql_is_null(row.num_chunks), sql_ge(row.num_chunks, 0)))
pending_filter(worker, row) ==
  IF worker = "ingest.worker" THEN pending_filter_ingest(row)
  ELSE pending_filter_legacy(row)

\* the rows the query selects
pending_query(worker, rows) ==
  {d \in DOMAIN rows : pending_filter(worker, rows[d]) = "true"}

\* a worker and the table it queries
InitPending ==
  /\ CoreInit
  /\ NotPendingInit
  /\ \E D \in SUBSET (1..MaxRows), worker \in Workers :
       \E rows \in [D -> PendingRows] :
          pending_log = [seq |-> 0, worker |-> worker, rows |-> rows,
                         matching |-> {}, first |-> 0]

\* the worker runs its query; .first() (ingest/worker.py:131) returns one
\* of the selected rows or None (0)
pending_query_run ==
  /\ pending_log.seq = 0
  /\ LET matching == pending_query(pending_log.worker, pending_log.rows)
     IN \E d \in IF matching = {} THEN {0} ELSE matching :
          pending_log' = [pending_log EXCEPT !.seq = 1,
                                             !.matching = matching,
                                             !.first = d]
  /\ UNCHANGED notPendingVars

NextPending == pending_query_run

SpecPending == InitPending /\ [][NextPending]_vars

\* ------------------------------------------------- multi-round retrieval
\* RAGService.multi_query_retrieve_and_rerank with _run_retry_round and
\* _run_refinement_round (rag_service.py:310-598).  One action is one
\* round: between two rounds the thinking steps emitted so far have been
\* handed to on_thinking.  A chunk is the pair doc_id, chunk_id; document 1
\* has its metadata chunk (chunk_id -1, section 'Document Metadata',
\* document_processor.py:166-177) and one content chunk.  A rerank score is
\* an integer number of hundredths.
MIN_ACCEPTABLE_SCORE == 40
GOOD_SCORE == 50
OriginalQuery == "q1"
RoundResponses == {<<>>, <<"a">>, <<"a", "b", "a">>, <<"a", "b", "a", "b">>}
RoundQueryTexts == {OriginalQuery, "a", "b"}
ChunkOrder == <<<<1, 0 - 1>>, <<1, 1>>>>
RetrievalChunks == {ChunkOrder[i] : i \in 1..Len(ChunkOrder)}
BestScores == {0, 39, 40, 49, 50}

\* chunk.get('section') == 'Document Metadata'
is_metadata_section(chunk) == chunk[2] = 0 - 1
\* f"{doc_id}_{chunk_id}" (rag_service.py:382) for tag "", and
\* f"meta_{doc_id}_{chunk_id}" (rag_service.py:344) for tag "meta"
chunk_key(tag, chunk) == <<tag, chunk[1], chunk[2]>>
\* the points of a set in the order the store returns them
hits_list(S) == SelectSeq(ChunkOrder, LAMBDA c : c \in S)

\* rag_service.py:381-386: the loop over the chunks of one search
RECURSIVE add_unseen(_, _)
add_unseen(found, acc) ==
  IF found = <<>> THEN acc
  ELSE LET key == chunk_key("", Head(found))
       IN add_unseen(Tail(found),
            IF key \in acc.seen THEN acc
            ELSE [acc EXCEPT !.chunks = Append(@, Head(found)),
                             !.seen = @ \cup {key}])

\* rag_service.py:360-393; searched lists the queries handed to
\* retrieve_for_query
RECURSIVE search_loop(_, _, _, _)
search_loop(queries, acc, map_empty, hits) ==
  IF queries = <<>> \/ map_empty THEN acc
  ELSE LET added == add_unseen(hits_list(hits[Head(queries)]),
                               [chunks |-> acc.chunks, seen |-> acc.seen])
       IN search_loop(Tail(queries),
                      [chunks |-> added.chunks, seen |-> added.seen,
                       searched |-> Append(acc.searched, Head(queries))],
                      map_empty, hits)
search_with_queries(queries, seen, map_empty, hits) ==
  search_loop(queries, [chunks |-> <<>>, seen |-> seen, searched |-> <<>>],
              map_empty, hits)

\* rag_service.py:339-351: the loop over the metadata chunks
RECURSIVE inject_loop(_, _, _)
inject_loop(metadata, acc, docs_with_metadata) ==
  IF metadata = <<>> THEN acc
  ELSE LET meta == Head(metadata)
           key == chunk_key("meta", meta)
       IN IF meta[1] \in docs_with_metadata \/ key \in acc.seen
            THEN inject_loop(Tail(metadata), acc, docs_with_metadata)
            ELSE inject_loop(Tail(metadata),
                             [chunks |-> Append(acc.chunks, meta),
                              seen |-> acc.seen \cup {key}],
                             docs_with_metadata \cup {meta[1]})

\* rag_service.py:310-358 with vector_store.py:416-461
inject_metadata_chunks(chunks, seen, map_empty, store) ==
  LET doc_ids == {chunks[i][1] : i \in 1..Len(chunks)}
      docs_with_metadata ==
        {chunks[i][1] : i \in {j \in 1..Len(chunks) :
                                 is_metadata_section(chunks[j])}}
      found_metadata ==
        hits_list({c \in store : is_metadata_section(c) /\ c[1] \in doc_ids})
  IN IF doc_ids = {} \/ map_empty THEN [chunks |-> chunks, seen |-> seen]
     ELSE inject_loop(found_metadata, [chunks |-> chunks, seen |-> seen],
                      docs_with_metadata)

\* search and injection of one round (rag_service.py:422-429, 507-514,
\* 575-582) on the locals of the call
round_search(m, round, queries) ==
  LET found == search_with_queries(queries, m.seen, m.map_empty, m.hits)
      injected == inject_metadata_chunks(m.accumulated \o found.chunks,
                                         found.seen, m.map_empty, m.store)
  IN [m EXCEPT !.searches = @ \o [i \in 1..Len(found.searched) |->
                                    <<round, found.searched[i]>>],
               !.seen = injected.seen,
               !.accumulated = injected.chunks]

emit(m, steps) == [m EXCEPT !.events = @ \o steps]
\* the reranker is called with the accumulated chunks
reranked(m) == [m EXCEPT !.rerank_input = m.accumulated]
\* rag_service.py:477-482 for a non-empty ranking of the given round
finish(m, round) ==
  [emit(m, <<"loading_parents", "complete">>) EXCEPT !.pc = "done",
                                                    !.ranking = round]
\* rag_service.py:473-475
finish_empty(m) == [emit(m, <<"no_results">>) EXCEPT !.pc = "done"]

\* rag_service.py:458 with GOOD_SCORE as the limit
needs_retry_below_good(r1) == r1 < GOOD_SCORE
\* rag_service.py:458
needs_retry(r1) == r1 < MIN_ACCEPTABLE_SCORE

\* improvement >= 0
improved_or_equal(r1, r2) == r2 - r1 >= 0
\* rag_service.py:528-537: improvement > 0
improved(r1, r2) == r2 - r1 > 0

\* the variables outside the call and the query expansion cache
notRetrievalVars == <<coreVars, sparseVars, rerankVars, chunkVars,
                      pendingVars, loadVars, loopsVars, passVars,
                      syncrunVars>>

\* rag_service.py:395-472: the call up to the end of Round 1.  store and
\* hits are the vector store during the call, ok and response the outcome
\* of the LLM call if one is made, best the highest score the reranker
\* gives to the accumulated chunks.
multi_query_retrieve_and_rerank(map_empty, store, hits, ok, response, best) ==
  /\ mq.pc = "idle"
  /\ LET qv == generate_query_variations(query_expansion_cache, clock,
                                         OriginalQuery, ok, response)
         m0 == [emit(NoRetrieval,
                     <<"start", "round1_start", "queries_generated">>)
                  EXCEPT !.map_empty = map_empty, !.store = store,
                         !.hits = hits, !.llm_calls = qv.llm_calls,
                         !.llm_failed = IF qv.llm_calls = 1 /\ ~ok
                                          THEN {1} ELSE {}]
         m1 == emit(round_search(m0, 1, qv.result), <<"round1_dedup">>)
         scored == [emit(reranked(m1), <<"round1_reranking", "round1_score">>)
                      EXCEPT !.r1 = best]
         decided(m) ==
           IF needs_retry(m.r1) THEN [m EXCEPT !.pc = "round2"]
           ELSE finish(reranked(emit(m, <<"round1_acceptable">>)), 1)
     IN /\ query_expansion_cache' = qv.cache
        /\ mq' = IF map_empty
                   THEN [emit(m0, <<"no_documents">>) EXCEPT !.pc = "done"]
                 ELSE IF m1.accumulated = <<>>
                   THEN decided([emit(m1, <<"round1_no_results">>)
                                   EXCEPT !.r1 = 0])
                 ELSE IF best >= GOOD_SCORE
                   THEN [emit(scored, <<"round1_success", "complete">>)
                           EXCEPT !.pc = "done", !.ranking = 1]
                 ELSE decided(scored)
  /\ UNCHANGED <<clock, last_expansion, notRetrievalVars>>

\* rag_service.py:484-545 and the return to lines 473-482
run_retry_round(ok, response, best) ==
  /\ mq.pc = "round2"
  /\ LET round2_queries == generate_queries_from_llm(ok, response,
                                                     OriginalQuery)
         m0 == [emit(mq, <<"round2_start", "round2_queries">>)
                  EXCEPT !.llm_calls = @ + 1,
                         !.llm_failed = IF ok THEN @ ELSE @ \cup {2}]
         m1 == emit(round_search(m0, 2, round2_queries), <<"round2_dedup">>)
         scored == [emit(reranked(m1), <<"round2_reranking", "round2_score">>)
                      EXCEPT !.r2 = best]
     IN mq' = IF m1.accumulated = <<>>
                THEN finish_empty(emit(m1, <<"no_results_final">>))
              ELSE IF best >= GOOD_SCORE
                THEN finish(emit(scored, <<"round2_success">>), 2)
              ELSE IF improved(mq.r1, best) /\ best < GOOD_SCORE
                THEN [scored EXCEPT !.pc = "round3"]
              ELSE finish(emit(scored, <<"round2_final">>), 2)
  /\ UNCHANGED <<expandVars, notRetrievalVars>>

\* rag_service.py:547-598 and the return to lines 473-482
run_refinement_round(ok, response, best) ==
  /\ mq.pc = "round3"
  /\ LET round3_queries == generate_queries_from_llm(ok, response,
                                                     OriginalQuery)
         m0 == [emit(mq, <<"round3_start", "round3_queries">>)
                  EXCEPT !.llm_calls = @ + 1,
                         !.llm_failed = IF ok THEN @ ELSE @ \cup {3}]
         m1 == emit(round_search(m0, 3, round3_queries), <<"round3_dedup">>)
     IN mq' = finish(emit(reranked(m1),
                          <<"round3_reranking", "round3_score">>), 3)
  /\ UNCHANGED <<expandVars, notRetrievalVars>>

\* the call has returned; the service waits for the next one
retrieval_returned ==
  /\ mq.pc = "done"
  /\ mq' = NoRetrieval
  /\ UNCHANGED <<expandVars, notRetrievalVars>>

\* the callers return 400 when the map of active documents is empty and
\* call the retrieval only otherwise (api/chat.py:84-86, main.py:559-561)
ActiveMapEmpty == {FALSE}

NextRetrieve ==
  \/ \E map_empty \in ActiveMapEmpty, store \in SUBSET RetrievalChunks,
        ok \in BOOLEAN, response \in RoundResponses, best \in BestScores :
        \E hits \in [RoundQueryTexts -> SUBSET store] :
           multi_query_retrieve_and_rerank(map_empty, store, hits, ok,
                                           response, best)
  \/ \E ok \in BOOLEAN, response \in RoundResponses, best \in BestScores :
        run_retry_round(ok, response, best)
  \/ \E ok \in BOOLEAN, response \in RoundResponses, best \in BestScores :
        run_refinement_round(ok, response, best)
  \/ retrieval_returned

SpecRetrieve == Init /\ [][NextRetrieve]_vars

\* ------------------------------------------------- parent loading
\* _load_parents_from_chunks and _expand_parent_neighbors
\* (rag_service.py:67-238).  A chunk of the reranked list is its doc_id,
\* parent_id and rerank_score (hundredths); pickles gives for every
\* document the number of parents in its side-store file, 0 for a document
\* without row, pickle_path or readable file.  The settings top_k_rerank
\* (6) and neighbor_expansion_window (4) are taken smaller.
top_k_rerank == 3
neighbor_expansion_window == 2
MaxReranked == 3
MaxLoadDocs == 2
MaxPickleParents == 3
LoadDocs == 1..MaxLoadDocs
LoadScores == {40, 80}
NoText == <<>>

\* the text of a parent: the parents with an odd id end in white space
parent_text(doc_id, parent_id) == <<doc_id, parent_id, parent_id % 2 = 1>>
\* str.strip()
strip(text) == <<text[1], text[2], FALSE>>

\* document_processor.py:41-58
load_parent_document(pickles, doc_id, parent_id) ==
  IF pickles[doc_id] = 0 THEN NoText
  ELSE IF parent_id < pickles[doc_id] THEN parent_text(doc_id, parent_id)
  ELSE NoText

\* limit = max(settings.top_k_rerank, 1)
load_limit == IF top_k_rerank > 1 THEN top_k_rerank ELSE 1

\* doc_order_map, kept as the list of its keys in insertion order:
\* doc_order_map.setdefault(doc_id, len(doc_order_map))
setdefault(doc_order_map, doc_id) ==
  IF \E i \in 1..Len(doc_order_map) : doc_order_map[i] = doc_id
    THEN doc_order_map
  ELSE Append(doc_order_map, doc_id)
doc_order(doc_order_map, doc_id) ==
  (CHOOSE i \in 1..Len(doc_order_map) : doc_order_map[i] = doc_id) - 1

\* rag_service.py:187-202 and 98-111, 125-138: an entry; the score of a
\* neighbor is 0.95 or 0.98 of its base entry's, scores in 1/10000
new_entry(acc, doc_id, parent_id, score, direction, pickles) ==
  LET order == setdefault(acc.doc_order_map, doc_id)
  IN [entries |-> Append(acc.entries,
        [doc_id |-> doc_id, parent_id |-> parent_id, score |-> score,
         text |-> load_parent_document(pickles, doc_id, parent_id),
         is_neighbor |-> direction # 0, neighbor_direction |-> direction,
         doc_order |-> doc_order(order, doc_id)]),
      seen_parents |-> acc.seen_parents \cup {<<doc_id, parent_id>>},
      doc_order_map |-> order]

\* rag_service.py:162-205: the loop over the reranked chunks
RECURSIVE load_base(_, _, _)
load_base(chunks, pickles, acc) ==
  IF chunks = <<>> \/ Len(acc.entries) >= load_limit THEN acc
  ELSE LET chunk == Head(chunks)
           parent_key == <<chunk.doc_id, chunk.parent_id>>
       IN IF \/ parent_key \in acc.seen_parents
             \/ pickles[chunk.doc_id] = 0
             \/ load_parent_document(pickles, chunk.doc_id,
                                     chunk.parent_id) = NoText
            THEN load_base(Tail(chunks), pickles, acc)
          ELSE load_base(Tail(chunks), pickles,
                         new_entry(acc, chunk.doc_id, chunk.parent_id,
                                   chunk.rerank_score * 100, 0, pickles))

\* max(entry.get('score', 0.0) * 0.95, 0.0), the factor in hundredths
neighbor_score(score, factor) ==
  LET scaled == (score * factor) \div 100
  IN IF scaled > 0 THEN scaled ELSE 0

\* the previous parent, added although it is in seen_parents
prev_neighbor_unchecked(acc, entry, pickles) ==
  IF /\ Len(acc.entries) < load_limit
     /\ entry.parent_id - 1 >= 0
     /\ load_parent_document(pickles, entry.doc_id,
                             entry.parent_id - 1) # NoText
    THEN new_entry(acc, entry.doc_id, entry.parent_id - 1,
                   neighbor_score(entry.score, 95), 0 - 1, pickles)
  ELSE acc

\* rag_service.py:93-111: the previous parent
prev_neighbor(acc, entry, pickles) ==
  IF /\ Len(acc.entries) < load_limit
     /\ entry.parent_id - 1 >= 0
     /\ <<entry.doc_id, entry.parent_id - 1>> \notin acc.seen_parents
     /\ load_parent_document(pickles, entry.doc_id,
                             entry.parent_id - 1) # NoText
    THEN new_entry(acc, entry.doc_id, entry.parent_id - 1,
                   neighbor_score(entry.score, 95), 0 - 1, pickles)
  ELSE acc

\* rag_service.py:113-138: the following parents within the window
RECURSIVE next_neighbors(_, _, _, _)
next_neighbors(acc, entry, offset, pickles) ==
  IF offset > neighbor_expansion_window \/ Len(acc.entries) >= load_limit
    THEN acc
  ELSE IF \/ <<entry.doc_id, entry.parent_id + offset>> \in acc.seen_parents
          \/ load_parent_document(pickles, entry.doc_id,
                                  entry.parent_id + offset) = NoText
    THEN next_neighbors(acc, entry, offset + 1, pickles)
  ELSE next_neighbors(new_entry(acc, entry.doc_id, entry.parent_id + offset,
                                neighbor_score(entry.score, 98), 1, pickles),
                      entry, offset + 1, pickles)

\* rag_service.py:85-138: the loop over base_snapshot
RECURSIVE expand_loop(_, _, _)
expand_loop(base_snapshot, acc, pickles) ==
  IF base_snapshot = <<>> \/ Len(acc.entries) >= load_limit THEN acc
  ELSE LET entry == Head(base_snapshot)
       IN IF pickles[entry.doc_id] = 0
            THEN expand_loop(Tail(base_snapshot), acc, pickles)
          ELSE expand_loop(Tail(base_snapshot),
                 next_neighbors(prev_neighbor(acc, entry, pickles),
                                entry, 1, pickles),
                 pickles)

\* the sort key with the score in both cases
sort_key_by_score(entry, reorder) == <<0 - entry.score, 0>>
\* rag_service.py:140-147: (doc_order, parent_id) ascending when a
\* neighbor was added, score descending otherwise
sort_key(entry, reorder) ==
  IF reorder THEN <<entry.doc_order, entry.parent_id>>
  ELSE <<0 - entry.score, 0>>
key_le(a, b) == a[1] < b[1] \/ (a[1] = b[1] /\ a[2] <= b[2])

\* list.sort is stable: an entry goes after the entries with an equal key
RECURSIVE insert_entry(_, _, _)
insert_entry(sorted, entry, reorder) ==
  IF sorted = <<>> THEN <<entry>>
  ELSE IF key_le(sort_key(Head(sorted), reorder), sort_key(entry, reorder))
    THEN <<Head(sorted)>> \o insert_entry(Tail(sorted), entry, reorder)
  ELSE <<entry>> \o sorted
RECURSIVE sort_entries(_, _)
sort_entries(entries, reorder) ==
  IF entries = <<>> THEN <<>>
  ELSE insert_entry(sort_entries(SubSeq(entries, 1, Len(entries) - 1),
                                 reorder),
                    entries[Len(entries)], reorder)

\* rag_service.py:67-149
expand_parent_neighbors(acc, pickles, enable_neighbor_expansion) ==
  IF ~enable_neighbor_expansion \/ neighbor_expansion_window <= 0
    THEN Take(acc.entries, load_limit)
  ELSE IF Len(acc.entries) >= load_limit THEN Take(acc.entries, load_limit)
  ELSE LET expanded == expand_loop(acc.entries, acc, pickles).entries
           reorder == \E i \in 1..Len(expanded) : expanded[i].is_neighbor
       IN Take(sort_entries(expanded, reorder), load_limit)

\* rag_service.py:212-236: a source of an entry
source_of(entry) ==
  [document |-> entry.doc_id, content |-> strip(entry.text),
   score |-> entry.score, neighbor_direction |-> entry.neighbor_direction]

\* rag_service.py:152-238
load_parents_from_chunks(chunks, pickles, enable_neighbor_expansion) ==
  LET base == load_base(chunks, pickles,
                        [entries |-> <<>>, seen_parents |-> {},
                         doc_order_map |-> <<>>])
      final_entries == expand_parent_neighbors(base, pickles,
                                               enable_neighbor_expansion)
  IN [base |-> base.entries, final |-> final_entries,
      contexts |-> [i \in 1..Len(final_entries) |-> final_entries[i].text],
      sources |-> [i \in 1..Len(final_entries) |->
                     source_of(final_entries[i])]]

\* the reranked chunks: at most top_k_rerank, sorted by rerank_score
\* descending (reranker.py:100-115), every parent_id one of the document's
\* side-store file when there is one (document_processor.py:143-214)
RerankedChunks(pickles) ==
  LET Chunk == {c \in [doc_id : LoadDocs, parent_id : 0..(MaxPickleParents - 1),
                       rerank_score : LoadScores] :
                  pickles[c.doc_id] > 0 => c.parent_id < pickles[c.doc_id]}
  IN {chunks \in UNION {[1..n -> Chunk] : n \in 0..MaxReranked} :
        \A i \in 1..(Len(chunks) - 1) :
           chunks[i].rerank_score >= chunks[i + 1].rerank_score}

\* a call of _load_parents_from_chunks with its arguments
InitLoad ==
  /\ CoreInit
  /\ NotLoadInit
  /\ \E pickles \in [LoadDocs -> 0..MaxPickleParents],
        enable_neighbor_expansion \in BOOLEAN :
        \E chunks \in RerankedChunks(pickles) :
           parent_log = [NoParentLoad EXCEPT
                           !.chunks = chunks, !.pickles = pickles,
                           !.enable_neighbor_expansion =
                              enable_neighbor_expansion]

\* the call returns
load_parents_call ==
  /\ parent_log.seq = 0
  /\ LET r == load_parents_from_chunks(parent_log.chunks, parent_log.pickles,
                                       parent_log.enable_neighbor_expansion)
     IN parent_log' = [parent_log EXCEPT !.seq = 1, !.base = r.base,
                                         !.final = r.final,
                                         !.contexts = r.contexts,
                                         !.sources = r.sources]
  /\ UNCHANGED notLoadVars

NextLoad == load_parents_call

SpecLoad == InitLoad /\ [][NextLoad]_vars

\* ------------------------------------------------- background loops
\* DocumentProcessingWorker._processing_loop (ingest/worker.py:83-114) and
\* ZoteroPoller._poll_loop (integrations/zotero/poller.py:25-51) as tasks of
\* the event loop.  A pass (process_documents in an executor thread) and a
\* check (_sync_check_documents in an executor thread) either return or
\* raise; failed tells that the last one raised and no later one has begun,
\* errors counts the exceptions raised.
MaxLoopErrors == 2
Outcomes == {"returned", "raised"}

\* the exception leaves the task
task_ends(resume) == "none"
\* worker.py:93-94, 100-101 and poller.py:48-49: `except Exception` logs,
\* and the task goes on after the try statement
loop_except(resume) == resume

\* worker.py:35-44
start_worker_loop ==
  /\ ~worker_loop.running
  /\ worker_loop' = [worker_loop EXCEPT !.running = TRUE, !.pc = "initial",
                                        !.event_set = FALSE]
  /\ UNCHANGED poller_loop

\* worker.py:46-54: the flag is cleared and the task cancelled
stop_worker_loop ==
  /\ worker_loop.running
  /\ worker_loop' = [worker_loop EXCEPT !.running = FALSE, !.pc = "none"]
  /\ UNCHANGED poller_loop

\* worker.py:56-81
trigger_worker_loop ==
  /\ worker_loop.running
  /\ worker_loop' = [worker_loop EXCEPT !.event_set = TRUE]
  /\ UNCHANGED poller_loop

\* worker.py:90-92 the initial pass, worker.py:96-99 `while self.running`
\* and the pass of an iteration
processing_loop_pass ==
  /\ worker_loop.pc \in {"initial", "loop"}
  /\ worker_loop' =
       IF worker_loop.pc = "initial"
         THEN [worker_loop EXCEPT !.pc = "await_initial", !.failed = FALSE]
       ELSE IF worker_loop.running
         THEN [worker_loop EXCEPT !.pc = "await_pass", !.failed = FALSE]
       ELSE [worker_loop EXCEPT !.pc = "none"]
  /\ UNCHANGED poller_loop

\* worker.py:92-94, 99-101: the awaited pass returns or raises
processing_loop_pass_done(outcome) ==
  /\ worker_loop.pc \in {"await_initial", "await_pass"}
  /\ outcome = "raised" => worker_loop.errors < MaxLoopErrors
  /\ LET resume == IF worker_loop.pc = "await_initial" THEN "loop"
                   ELSE "sleeping"
     IN worker_loop' =
          IF outcome = "raised"
            THEN [worker_loop EXCEPT !.pc = loop_except(resume),
                                     !.failed = TRUE, !.errors = @ + 1]
          ELSE [worker_loop EXCEPT !.pc = resume]
  /\ UNCHANGED poller_loop

\* worker.py:103-107: the event is set, wait_for returns, the event is
\* cleared
processing_loop_sleep_wake ==
  /\ worker_loop.pc = "sleeping"
  /\ worker_loop.event_set
  /\ worker_loop' = [worker_loop EXCEPT !.pc = "loop", !.event_set = FALSE]
  /\ UNCHANGED poller_loop

\* worker.py:108-110: asyncio.TimeoutError after check_interval
processing_loop_sleep_timeout ==
  /\ worker_loop.pc = "sleeping"
  /\ worker_loop' = [worker_loop EXCEPT !.pc = "loop"]
  /\ UNCHANGED poller_loop

\* poller.py:25-32
poller_start ==
  /\ ~poller_loop.running
  /\ poller_loop' = [poller_loop EXCEPT !.running = TRUE, !.pc = "check"]
  /\ UNCHANGED worker_loop

\* poller.py:34-42
poller_stop ==
  /\ poller_loop.running
  /\ poller_loop' = [poller_loop EXCEPT !.running = FALSE, !.pc = "none"]
  /\ UNCHANGED worker_loop

\* poller.py:45-47: `while self.running` and the check of an iteration
poll_loop_check ==
  /\ poller_loop.pc = "check"
  /\ poller_loop' =
       IF poller_loop.running
         THEN [poller_loop EXCEPT !.pc = "await_check", !.failed = FALSE]
       ELSE [poller_loop EXCEPT !.pc = "none"]
  /\ UNCHANGED worker_loop

\* poller.py:47-49: the awaited check returns or raises
poll_loop_check_done(outcome) ==
  /\ poller_loop.pc = "await_check"
  /\ outcome = "raised" => poller_loop.errors < MaxLoopErrors
  /\ poller_loop' =
       IF outcome = "raised"
         THEN [poller_loop EXCEPT !.pc = loop_except("sleep"),
                                  !.failed = TRUE, !.errors = @ + 1]
       ELSE [poller_loop EXCEPT !.pc = "sleep"]
  /\ UNCHANGED worker_loop

\* poller.py:51: asyncio.sleep(self.poll_interval) returns
poll_loop_sleep_done ==
  /\ poller_loop.pc = "sleep"
  /\ poller_loop' = [poller_loop EXCEPT !.pc = "check"]
  /\ UNCHANGED worker_loop

\* the steps of the two tasks
WorkerLoopStep ==
  \/ processing_loop_pass
  \/ \E outcome \in Outcomes : processing_loop_pass_done(outcome)
  \/ processing_loop_sleep_wake
  \/ processing_loop_sleep_timeout
PollerLoopStep ==
  \/ poll_loop_check
  \/ \E outcome \in Outcomes : poll_loop_check_done(outcome)
  \/ poll_loop_sleep_done

NextLoops ==
  \/ (start_worker_loop /\ UNCHANGED notLoopsVars)
  \/ (stop_worker_loop /\ UNCHANGED notLoopsVars)
  \/ (trigger_worker_loop /\ UNCHANGED notLoopsVars)
  \/ (WorkerLoopStep /\ UNCHANGED notLoopsVars)
  \/ (poller_start /\ UNCHANGED notLoopsVars)
  \/ (poller_stop /\ UNCHANGED notLoopsVars)
  \/ (PollerLoopStep /\ UNCHANGED notLoopsVars)

SpecLoops == Init /\ [][NextLoops]_vars

\* the event loop runs a task that can take a step; executor threads and
\* timers complete
SpecLoopsFair ==
  /\ SpecLoops
  /\ WF_vars(WorkerLoopStep /\ UNCHANGED notLoopsVars)
  /\ WF_vars(PollerLoopStep /\ UNCHANGED notLoopsVars)

\* ------------------------------------------------- passes over the pending rows
\* process_documents of the worker of services/ingest (worker.py:116-265)
\* and of the legacy worker (document_processing_worker.py:135-287), called
\* again and again by a running _processing_loop.  A row is (processed,
\* num_chunks); files holds the documents whose source file exists and
\* readable those on which the pipeline succeeds (on the others it raises
\* at every attempt, as for a damaged file).
PassDocs == 1..MaxRows
UploadedRow == [processed |-> FALSE, num_chunks |-> <<0>>]
IngestedRow == [processed |-> TRUE, num_chunks |-> <<1>>]

\* worker.py:154-258 for one selected row: the already-processed skip,
\* the pipeline, the failure mark of the except block, the file-not-found
\* mark
ingest_worker_document(row, has_file, pipeline_ok) ==
  IF row.processed THEN row
  ELSE IF has_file /\ pipeline_ok THEN IngestedRow
  ELSE [processed |-> TRUE, num_chunks |-> <<0 - 1>>]

\* document_processing_worker.py:174-281 for one row of the batch: the
\* except block rolls back and marks nothing, the file-not-found branch
\* sets processed = False and num_chunks = -1
legacy_worker_document(row, has_file, pipeline_ok) ==
  IF row.processed THEN row
  ELSE IF has_file /\ pipeline_ok THEN IngestedRow
  ELSE IF has_file THEN row
  ELSE [processed |-> FALSE, num_chunks |-> <<0 - 1>>]

worker_document(worker, row, has_file, pipeline_ok) ==
  IF worker = "ingest.worker"
    THEN ingest_worker_document(row, has_file, pipeline_ok)
  ELSE legacy_worker_document(row, has_file, pipeline_ok)

\* the ids of a set in ascending order
RECURSIVE ascending(_)
ascending(S) ==
  IF S = {} THEN <<>>
  ELSE LET least == CHOOSE x \in S : \A y \in S : x <= y
       IN <<least>> \o ascending(S \ {least})

\* a worker, the uploaded documents and their files
InitPass ==
  /\ CoreInit
  /\ NotPassInit
  /\ \E worker \in Workers, D \in SUBSET PassDocs :
       \E with_file \in SUBSET D, readable \in SUBSET D :
          worker_pass = [NoPass EXCEPT !.worker = worker,
                                       !.rows = [d \in D |-> UploadedRow],
                                       !.files = with_file,
                                       !.readable = readable]

\* _processing_loop calls process_documents (worker.py:99, 112-114); the
\* legacy worker reads its batch here
\* (document_processing_worker.py:143-146)
process_documents_pass ==
  /\ worker_pass.pc = "sleeping"
  /\ worker_pass' =
       IF worker_pass.worker = "ingest.worker"
         THEN [worker_pass EXCEPT !.pc = "query"]
       ELSE [worker_pass EXCEPT
               !.pc = "query",
               !.batch = ascending(pending_query(worker_pass.worker,
                                                 worker_pass.rows))]
  /\ UNCHANGED notPassVars

\* worker.py:128-150: the pending query at the head of `while True`, the
\* pass ends without a pending row; document_processing_worker.py:148-174:
\* the next document of the batch, the pass ends after the last one
process_documents_next ==
  /\ worker_pass.pc = "query"
  /\ IF worker_pass.worker = "ingest.worker"
       THEN LET matching == pending_query(worker_pass.worker,
                                          worker_pass.rows)
            IN IF matching = {}
                 THEN worker_pass' = [worker_pass EXCEPT !.pc = "sleeping"]
               ELSE \E d \in matching :
                      worker_pass' = [worker_pass EXCEPT !.pc = "document",
                                                         !.doc = d]
     ELSE IF worker_pass.batch = <<>>
       THEN worker_pass' = [worker_pass EXCEPT !.pc = "sleeping"]
     ELSE worker_pass' = [worker_pass EXCEPT
                            !.pc = "document",
                            !.doc = Head(worker_pass.batch),
                            !.batch = Tail(worker_pass.batch)]
  /\ UNCHANGED notPassVars

\* the body of the loop for the selected document
process_documents_document ==
  /\ worker_pass.pc = "document"
  /\ LET d == worker_pass.doc
     IN worker_pass' =
          [worker_pass EXCEPT
             !.pc = "query", !.doc = 0,
             !.rows[d] = worker_document(worker_pass.worker, @,
                                         d \in worker_pass.files,
                                         d \in worker_pass.readable)]
  /\ UNCHANGED notPassVars

NextPass ==
  \/ process_documents_pass
  \/ process_documents_next
  \/ process_documents_document

SpecPass == InitPass /\ [][NextPass]_vars

\* the worker keeps running: the loop's timer starts the next pass and the
\* executor thread runs the pass
SpecPassFair == SpecPass /\ WF_vars(NextPass)

\* ------------------------------------------------- properties: ingest
\* thread t enters the ingest pipeline in this step (pipeline.py:49 is
\* called at worker.py:196)
PipelineInvoked(t) == thr[t].pc # "extraction" /\ thr'[t].pc = "extraction"

\* threads with a pipeline run in progress
InPipeline == {t \in Threads : thr[t].pc \in PipelinePcs}

ErrorEntry == [stage |-> "error", progress |-> 0]

\* C1: a document that has been marked terminally failed (num_chunks = -1)
\* is never re-attempted by the worker: the ingest pipeline is never invoked
\* on it again, whatever reprocess requests, Zotero syncs and startup
\* reconciliations are interleaved with the worker's passes.
C1_FailedNeverReattempted ==
  [][\A t \in Threads : PipelineInvoked(t) => thr'[t].doc \notin terminal]_vars

\* C2 as stated: every Document with processed = true has an existing
\* side-store file, an existing collection doc_<id>, and num_chunks >= 1.
C2_ProcessedImpliesArtifacts ==
  \A d \in DOMAIN documents :
    documents[d].processed =>
      /\ d \in side_store
      /\ collection_exists(d)
      /\ documents[d].num_chunks >= 1

\* C2 amended: every Document with processed = true either carries the
\* failure sentinel num_chunks = -1, or has its pickle_path set, an existing
\* side-store file, an existing collection doc_<id> and the chunk count of
\* its last pipeline run (>= 0) as num_chunks.
C2_ProcessedImpliesArtifactsUnlessFailed ==
  \A d \in DOMAIN documents :
    (documents[d].processed /\ documents[d].num_chunks # -1) =>
      /\ documents[d].pickle_path
      /\ d \in side_store
      /\ collection_exists(d)
      /\ documents[d].num_chunks >= 0

\* one document ingested successfully next to one marked failed
C2_Witness ==
  \E d, e \in DOMAIN documents :
    /\ documents[d].processed /\ documents[d].num_chunks >= 1
    /\ d \in side_store /\ document_exists(d)
    /\ documents[e].processed /\ documents[e].num_chunks = -1

C8_OneAtATime == Cardinality(InPipeline) <= 1

\* C9: a trigger_check() issued while the worker is running is never lost:
\* a pass follows it without the check_interval timer having to fire, so
\* while a trigger is outstanding and the loop sleeps, the event wake-up
\* (not only the timeout) is able to resume it.
C9_TriggerWakesLoop ==
  (running /\ trigger_pending /\ task_pc = "sleeping")
     => (event_set /\ ~loop_stuck)

\* C10: when stop() is called while a document is in the pipeline, that
\* document is completed and the pass starts no further pending document.
C10_StopEndsBatch ==
  [][\A t \in Threads :
       stopped_during[t] # NoDoc => ~PipelineInvoked(t)]_vars

\* ------------------------------------------------- properties: /query/stream
\* positions of the events of one type in the response
EventsOfType(type) == {i \in 1..Len(sse) : sse[i].type = type}

\* the response has been written to its end
StreamOver == gen_pc \in {"closed", "aborted"}

\* C3: in the SSE stream of one request the thinking events appear in the
\* order the retrieval produced them, every chunk event comes after all
\* thinking events, and the end event comes after all chunk events and is
\* the last event of the stream.
C3_StreamOrdering ==
  \A i, j \in 1..Len(sse) :
    i < j =>
      /\ (sse[i].type = "thinking" /\ sse[j].type = "thinking")
            => sse[i].step < sse[j].step
      /\ sse[i].type = "chunk" => sse[j].type # "thinking"
      /\ sse[i].type # "end"

\* a finished stream with two thinking steps, two chunks and the end event
C3_Witness ==
  /\ gen_pc = "closed"
  /\ Len(sse) = 5
  /\ sse[1].type = "thinking" /\ sse[2].type = "thinking"
  /\ sse[3].type = "chunk" /\ sse[4].type = "chunk"
  /\ sse[5].type = "end"

\* C4: if multi_query_retrieve_and_rerank raises in the retrieval thread,
\* the response emits an error event as its last event, emits no chunk or
\* end event, and no assistant message is persisted.
C4_RetrievalErrorEvent ==
  (StreamOver /\ retrieval_result.error) =>
    /\ sse # <<>>
    /\ sse[Len(sse)].type = "error"
    /\ EventsOfType("chunk") = {}
    /\ EventsOfType("end") = {}
    /\ messages[Len(messages)].role = "user"

\* C5: when retrieval finishes without error and returns zero contexts, the
\* handler persists exactly one canned assistant message, emits no chunk
\* event, and ends the stream with one end event whose sources list is
\* empty and whose message_id is that of the persisted message.
C5_NoContextsAnswer ==
  (StreamOver /\ ~retrieval_result.error /\ retrieval_result.contexts = 0) =>
    /\ Len(messages) >= 2
    /\ messages[Len(messages)].role = "assistant"
    /\ messages[Len(messages)].kind = "canned"
    /\ messages[Len(messages)].chat_id = req_chat
    /\ messages[Len(messages) - 1].role = "user"
    /\ EventsOfType("chunk") = {}
    /\ EventsOfType("end") = {Len(sse)}
    /\ sse[Len(sse)].sources = 0
    /\ sse[Len(sse)].message_id = messages[Len(messages)].id

\* a finished stream whose retrieval returned no contexts after one
\* thinking step
C5_Witness ==
  /\ gen_pc = "closed"
  /\ ~retrieval_result.error
  /\ retrieval_result.contexts = 0
  /\ produced >= 1
  /\ sse # <<>>

\* no Document row is both processed and query_enabled
NoActiveDocument ==
  ~\E d \in DOMAIN documents :
      documents[d].processed /\ documents[d].query_enabled

\* a POST /query/stream request is served in this step
RequestServed == req_count' = req_count + 1

\* C6 as stated: when no document is both processed and query_enabled,
\* POST /query/stream fails with HTTP 400 and leaves the state unchanged:
\* no user message is persisted and no retrieval thread is started.
C6_NoActive400 ==
  [][(RequestServed /\ NoActiveDocument) =>
        /\ http_status' = 400
        /\ messages' = messages
        /\ ret_pc' = "none"]_vars

\* C6 amended: when no document is both processed and query_enabled, POST
\* /query/stream for an existing chat fails with HTTP 400, for a missing
\* chat with HTTP 404 (the chat is looked up first); in both cases no user
\* message is persisted and no retrieval thread is started.
C6_NoActive400ForExistingChat ==
  [][(RequestServed /\ NoActiveDocument) =>
        /\ http_status' = IF req_chat' \in chats THEN 400 ELSE 404
        /\ messages' = messages
        /\ ret_pc' = "none"
        /\ gen_pc' = "none"]_vars

\* a request for an existing chat was refused with 400 while a processed
\* document with query_enabled = false exists
C6_Witness ==
  /\ http_status = 400
  /\ req_chat \in chats
  /\ NoActiveDocument
  /\ \E d \in DOMAIN documents : documents[d].processed

\* ------------------------------------------------- zotero sync, poller
\* a step of a sync call (every call flips last_sync.seq)
SyncStep == last_sync' # last_sync

\* the rows a step created or changed
Written == {d \in DOMAIN documents' :
              d \notin DOMAIN documents \/ documents'[d] # documents[d]}

\* C11: a Zotero sync (sync_all_documents, sync_new_documents_only) only
\* enqueues: every row it creates or updates ends the sync with
\* processed = false, and the sync writes no side-store file and creates
\* or fills no vector collection.
C11_SyncOnlyEnqueues ==
  [][SyncStep =>
       /\ \A d \in Written : ~documents'[d].processed
       /\ side_store' = side_store
       /\ collections' = collections]_vars

C13_PollerRunsSyncNew ==
  (poller_log.auto_sync /\ poller_log.new_count > 0)
    => poller_log.sync_called

\* ------------------------------------------------- document deletion
\* a step of a DELETE request (every request flips delete_log.seq)
DeleteStep == delete_log' # delete_log

\* C14: deletion is best-effort after the database step: when the
\* database delete fails the request fails and no collection, side-store
\* file or source file is removed; when it succeeds the request returns
\* status "deleted" whatever the three other deletions do.
C14_DeleteBestEffort ==
  [][DeleteStep =>
       /\ delete_log'.db = "failed" =>
            /\ delete_log'.status = "500"
            /\ UNCHANGED <<collections, side_store, files>>
       /\ delete_log'.db = "ok" => delete_log'.status = "deleted"]_vars

\* ------------------------------------------------- reprocess
\* C15: reprocess is idempotent on the post-state: once the worker is at
\* rest again after POST /documents/{id}/reprocess (a first or a second
\* time), the pair (processed, num_chunks) of the document is the pair it
\* had before the first reprocess.
C15_ReprocessIdempotent ==
  Quiescent =>
    \A d \in DOMAIN reprocess_log \cap DOMAIN documents :
      <<documents[d].processed, documents[d].num_chunks>>
        = reprocess_log[d].before

\* ------------------------------------------------- startup reconciliation
\* the step of the startup (the reconciliation is part of it)
StartupStep == app = "down" /\ app' = "up"

Prefixed(store) == {c \in store : starts_with_prefix(c)}

\* listing and deleting worked for every collection the cleanup had to drop
CleanupUnhindered(log) ==
  /\ log.list_ok
  /\ log.failing \cap (Prefixed(log.store) \ log.valid) = {}

C18_CleanupLeavesValidAndOthers ==
  [][StartupStep =>
       StoreNames(collections', other_collections')
         = startup_log'.valid
             \cup (startup_log'.store \ Prefixed(startup_log'.store))]_vars

\* C18 amended: cleanup_orphaned_collections(V) creates nothing and never
\* touches a collection of V or one without the prefix; when the listing
\* and the deletes work it deletes every prefixed collection not in V, so
\* that it leaves exactly the collections of V that existed together with
\* the collections without the prefix.
C18_CleanupLeavesExistingValidAndOthers ==
  [][StartupStep =>
       LET log == startup_log'
           now == StoreNames(collections', other_collections')
           keep == (log.store \cap log.valid)
                     \cup (log.store \ Prefixed(log.store))
       IN /\ keep \subseteq now
          /\ now \subseteq log.store
          /\ CleanupUnhindered(log) => now = keep]_vars

C18_Witness ==
  /\ startup_log.done
  /\ startup_log.list_ok
  /\ startup_log.failing = {}
  /\ Prefixed(startup_log.store) \ startup_log.valid # {}
  /\ startup_log.store \ Prefixed(startup_log.store) # {}
  /\ other_collections = startup_log.store \ Prefixed(startup_log.store)
  /\ \A c \in Prefixed(startup_log.store) \ startup_log.valid :
        c \notin StoreNames(collections, other_collections)

\* the startup reconciliation resets exactly the processed rows whose
\* collection is missing or holds no point
ResetAtStartup ==
  [][StartupStep =>
       \A d \in DOMAIN documents :
         /\ d \in DOMAIN documents'
         /\ IF d \in MissingInStore
              THEN ~documents'[d].processed /\ documents'[d].num_chunks = 0
              ELSE documents'[d] = documents[d]]_vars

WasReset(d) == startup_log.done /\ d \in startup_log.reset

ListStep == listing'.seq # listing.seq

\* the documents a worker thread is running the pipeline on
BeingProcessed == {thr[t].doc : t \in InPipeline}

\* C19: the currently-processing marker is observable: while the worker
\* runs the pipeline on document d, GET /documents reports
\* is_actively_processing = true for d and for no other document, and
\* when no run is under way it reports false for every document.
C19_MarkerObservable ==
  [][ListStep =>
       \A d \in DOMAIN listing'.flags :
         listing'.flags[d] <=> (d \in BeingProcessed)]_vars

\* ------------------------------------------------- persistence session
\* C20: a persistence session is never shared across threads: in the
\* /query/stream handler the request's database session is used by at most
\* one of the request thread, the retrieval thread and the generator
\* thread during the life of the request.
C20_SessionNotShared == Cardinality(session_threads) <= 1

\* ------------------------------------------- properties: query expansion
ExpandStep == last_expansion'.seq # last_expansion.seq
\* the call of this step repeats the query of the call before it, and the
\* variants that call returned were cached less than the TTL ago
RepeatedWithinTtl ==
  /\ last_expansion.query # ""
  /\ last_expansion'.query = last_expansion.query
  /\ clock' < last_expansion.cached_at + query_expansion_cache_ttl

\* C21: generate_query_variations always returns exactly three variants,
\* and a call that repeats the query of the call before it within the cache
\* TTL makes no LLM call and returns the same three variants.
C21_ThreeVariantsAndCached ==
  [][ExpandStep =>
       /\ Len(last_expansion'.result) = 3
       /\ RepeatedWithinTtl =>
            /\ last_expansion'.llm_calls = 0
            /\ last_expansion'.result = last_expansion.result]_vars
\* a repeated query was answered from the cache with variants the LLM gave
C21_Witness ==
  /\ last_expansion.query # ""
  /\ last_expansion.llm_calls = 0
  /\ last_expansion.result[1] # last_expansion.query

\* ------------------------------------------- properties: sparse embedding
\* C22: the sparse embedding hashes tokens with a stable hash: a token has
\* the same index in every process run, so the vector computed for a text
\* equals the vector stored for the same text, also after a restart.
C22_SameVectorEveryRun ==
  (sparse_point.seq + sparse_query.seq > 0
     /\ sparse_query.text = sparse_point.text)
    => sparse_query.vector = sparse_point.vector

\* ------------------------------------------- properties: reranker
\* no score of the last call reaches the threshold computed from them
NoneReachesThreshold ==
  \A i \in 1..Len(rerank_log.scores) :
     ~reaches_threshold(rerank_log.scores, rerank_log.scores[i])

\* C23: rerank with apply_threshold = true and top_k >= 1 never returns an
\* empty list for a non-empty input; when no document reaches the adaptive
\* threshold it returns exactly the single top-scored document, tagged
\* with threshold_reason "fallback_below_threshold".
C23_NeverEmptyFallbackTop ==
  (rerank_log.seq = 1 /\ rerank_log.apply_threshold
     /\ rerank_log.top_k >= 1 /\ rerank_log.scores # <<>>)
    => /\ rerank_log.result # <<>>
       /\ NoneReachesThreshold =>
            /\ Len(rerank_log.result) = 1
            /\ rerank_log.result[1].rerank_score = MaxScore(rerank_log.scores)
            /\ rerank_log.result[1].threshold_reason
                 = "fallback_below_threshold"
\* a call in which no document reached the threshold
C23_Witness ==
  /\ rerank_log.seq = 1
  /\ rerank_log.apply_threshold /\ rerank_log.top_k >= 1
  /\ Len(rerank_log.scores) >= 2
  /\ NoneReachesThreshold
  /\ rerank_log.result # <<>>

\* the threshold computed for the scores of the last call is half their
\* maximum: it is the low-quality branch, and a score reaches the
\* threshold iff twice the score is at least the maximum
ProbeScores == (0 - 50)..100
ThresholdIsHalfMax ==
  /\ threshold_reason(rerank_log.scores) = "low_quality_all"
  /\ \A score \in ProbeScores :
        reaches_threshold(rerank_log.scores, score)
          <=> 2 * score >= MaxScore(rerank_log.scores)
LowMaximum ==
  /\ rerank_log.seq = 1 /\ rerank_log.apply_threshold
  /\ rerank_log.scores # <<>>
  /\ MaxScore(rerank_log.scores) < 30

\* C34: whenever the maximum rerank score of a non-empty score list is
\* below 0.3, the adaptive threshold computed for it equals 0.5 times that
\* maximum (the low-quality branch).
C34_LowMaxHalvesThreshold == LowMaximum => ThresholdIsHalfMax

\* C34 as the code has it: whenever the maximum rerank score of a
\* non-empty score list is below 0.3 and no score is negative, the
\* adaptive threshold equals 0.5 times that maximum (the low-quality
\* branch); with a negative score the clear-winner or the high-variance
\* branch can come first.
C34_LowMaxHalvesThresholdNonNegative ==
  (LowMaximum /\ \A i \in 1..Len(rerank_log.scores) : rerank_log.scores[i] >= 0)
    => ThresholdIsHalfMax
\* a call with scores 0.25 and 0 in which the document scored 0 is cut
C34_Witness ==
  /\ LowMaximum
  /\ \A i \in 1..Len(rerank_log.scores) : rerank_log.scores[i] >= 0
  /\ MaxScore(rerank_log.scores) = 25
  /\ Len(rerank_log.scores) >= 2
  /\ rerank_log.top_k >= 2
  /\ Len(rerank_log.result) < Len(rerank_log.scores)
  /\ Len(rerank_log.result) < rerank_log.top_k

\* ------------------------------------------- properties: parent-child chunks
\* the chunks emitted by the last call
Emitted == {process_log.chunks[i] : i \in 1..Len(process_log.chunks)}

\* C24: for every chunk emitted, 0 <= parent_id < number of parents
\* persisted to the side-store, and the parent at that index contains the
\* chunk text.
C24_ParentIdValid ==
  process_log.seq = 1 =>
    \A c \in Emitted :
       /\ 0 <= c.parent_id
       /\ c.parent_id < Len(process_log.persisted)
       /\ contains(process_log.persisted[c.parent_id + 1], c.text)
\* a call with a metadata chunk and child chunks of two parents
C24_Witness ==
  /\ process_log.seq = 1
  /\ process_log.metadata_chunk # NoMetadata
  /\ \E c, d \in Emitted : ~c.is_metadata /\ ~d.is_metadata
                             /\ c.origin # d.origin

\* C25: when a metadata chunk is supplied it is stored at parent index 0,
\* exactly one emitted chunk has is_metadata = true and parent_id = 0, and
\* every content chunk of original parent p has parent_id = p + 1; when
\* none is supplied, parent_id = p.
C25_MetadataOffset ==
  (process_log.seq = 1 /\ process_log.write_ok) =>
    IF process_log.metadata_chunk # NoMetadata
      THEN /\ process_log.persisted[1] = process_log.metadata_chunk
           /\ Cardinality({i \in 1..Len(process_log.chunks) :
                             process_log.chunks[i].is_metadata}) = 1
           /\ \A c \in Emitted :
                IF c.is_metadata THEN c.parent_id = 0
                ELSE c.parent_id = c.origin + 1
      ELSE \A c \in Emitted : ~c.is_metadata /\ c.parent_id = c.origin
\* a call with a metadata chunk and a content chunk of the second parent
C25_Witness ==
  /\ process_log.seq = 1
  /\ process_log.metadata_chunk # NoMetadata
  /\ \E c \in Emitted : ~c.is_metadata /\ c.origin = 1 /\ c.parent_id = 2

\* ------------------------------------------- properties: pending query
\* C26: the worker's pending query selects a document iff processed =
\* false and (num_chunks >= 0 or num_chunks is null); in particular a row
\* with processed = false and null num_chunks is picked up.
C26_PendingSelectsNull ==
  pending_log.seq = 1 =>
    \A d \in DOMAIN pending_log.rows :
       d \in pending_log.matching
         <=> /\ ~pending_log.rows[d].processed
             /\ \/ pending_log.rows[d].num_chunks = Null
                \/ pending_log.rows[d].num_chunks[1] >= 0

\* ------------------------------------------- properties: multi-round retrieval
\* the thinking step has been emitted by the running call
emitted_step(step) == \E i \in 1..Len(mq.events) : mq.events[i] = step
\* the searches the running call issued in a round
round_searches(round) ==
  SelectSeq(mq.searches, LAMBDA search : search[1] = round)
Round2Entered == mq.pc = "round2" \/ emitted_step("round2_start")
Round3Entered == mq.pc = "round3" \/ emitted_step("round3_start")
\* Round 2 is entered iff the Round-1 best score is below 0.4, its
\* searches are issued, and a Round-1 best score of 0.5 or more ends the
\* call after Round 1 with its parents loaded
Round1Decides ==
  /\ Round2Entered <=> mq.r1 < MIN_ACCEPTABLE_SCORE
  /\ emitted_step("round2_dedup") => Len(round_searches(2)) >= 1
  /\ mq.r1 >= GOOD_SCORE =>
       /\ mq.pc = "done" /\ mq.ranking = 1
       /\ emitted_step("round1_success") /\ emitted_step("complete")
       /\ ~emitted_step("round2_queries") /\ ~emitted_step("round3_queries")
       /\ \A i \in 1..Len(mq.searches) : mq.searches[i][1] = 1

\* C27: multi_query_retrieve_and_rerank enters Round 2 iff the
\* Round-1 best rerank score is below 0.4, an empty Round 1 counting as
\* score 0; with a Round-1 best score >= 0.5 it loads parents and returns
\* after Round 1 without generating or searching any further query.
C27_RoundTwoIffBelowMin == mq.pc # "idle" => Round1Decides
\* Round 2 has searched after a Round 1 that found chunks scored below 0.4
C27_Witness ==
  /\ emitted_step("round1_score") /\ mq.r1 = 39
  /\ emitted_step("round2_dedup") /\ Len(round_searches(2)) >= 1

\* C28: after Round 2, Round 3 is run iff the Round-2 best score is below
\* 0.5 and strictly greater than the Round-1 best score; if it is >= 0.5 or
\* did not improve on Round 1, retrieval stops with the Round-2 ranking.
C28_RoundThreeIffImproved ==
  /\ emitted_step("round2_score") =>
       /\ Round3Entered <=> (mq.r2 < GOOD_SCORE /\ mq.r2 > mq.r1)
       /\ ~Round3Entered => (mq.pc = "done" /\ mq.ranking = 2)
  /\ ~emitted_step("round2_score") => ~Round3Entered
\* Round 3 has run after an improvement that stayed below 0.5
C28_Witness ==
  /\ emitted_step("round3_score")
  /\ mq.r1 = 39 /\ mq.r2 = 49 /\ mq.ranking = 3

\* C29: if the LLM call that generates queries fails in a round (1, 2 or
\* 3), the original query is substituted three times: the round issues
\* three searches, each with the original query.
C29_FailureSubstitutesThree ==
  \A round \in mq.llm_failed :
     (mq.pc = "done" /\ ~mq.map_empty) =>
       round_searches(round) = [i \in 1..3 |-> <<round, OriginalQuery>>]

\* C30: the accumulated chunks are deduplicated by (doc_id, chunk_id): the
\* list passed to the reranker, in every round and after metadata
\* injection, holds no two chunks with the same (doc_id, chunk_id).
C30_NoDuplicateChunks ==
  \A i, j \in 1..Len(mq.rerank_input) :
     mq.rerank_input[i] = mq.rerank_input[j] => i = j

\* the number of times the running call has emitted the thinking step
step_count(step) ==
  Cardinality({i \in 1..Len(mq.events) : mq.events[i] = step})
\* at most nine searches in rounds 1 to 3, at most three LLM calls, and
\* every round started at most once
WithinThreeRounds ==
  /\ Len(mq.searches) <= 9
  /\ \A i \in 1..Len(mq.searches) : mq.searches[i][1] \in 1..3
  /\ mq.llm_calls <= 3
  /\ \A step \in {"round1_start", "round2_start", "round3_start"} :
        step_count(step) <= 1

\* the position of the call: every step of a running call moves it
\* strictly forward, so the call returns after at most three steps
round_rank(pc) ==
  CASE pc = "idle" -> 0 [] pc = "round2" -> 1 [] pc = "round3" -> 2
    [] pc = "done" -> 3
RoundsAdvance == mq'.pc = "idle" \/ round_rank(mq'.pc) > round_rank(mq.pc)

\* C31: multi_query_retrieve_and_rerank always terminates after at most
\* three rounds: it issues at most 9 vector searches and at most 3
\* query-generation LLM calls per query, and no round is ever repeated
\* (every step of the call moves it to a later round or to its return).
C31_TerminatesWithinThreeRounds ==
  /\ []WithinThreeRounds
  /\ [][RoundsAdvance]_vars
\* a call has returned after three rounds, nine searches and three LLM calls
C31_Witness ==
  /\ mq.pc = "done" /\ mq.ranking = 3
  /\ Len(mq.searches) = 9 /\ mq.llm_calls = 3
  /\ step_count("round3_start") = 1

\* ------------------------------------------- properties: parent loading
\* a neighbor is among the returned entries
NeighborAdded ==
  \E i \in 1..Len(parent_log.final) : parent_log.final[i].is_neighbor
\* the documents of the reranked chunks in the order of their first chunk
RECURSIVE first_appearance(_, _)
first_appearance(entries, docs) ==
  IF entries = <<>> THEN docs
  ELSE first_appearance(Tail(entries), setdefault(docs, Head(entries).doc_id))
appearance(doc_id) ==
  doc_order(first_appearance(parent_log.chunks, <<>>), doc_id)
\* the reranked chunks that can be loaded, without repeated parents
RECURSIVE loadable(_, _)
loadable(chunks, seen) ==
  IF chunks = <<>> THEN <<>>
  ELSE LET c == Head(chunks)
           key == <<c.doc_id, c.parent_id>>
       IN IF key \in seen \/ parent_log.pickles[c.doc_id] = 0
            THEN loadable(Tail(chunks), seen)
          ELSE <<key>> \o loadable(Tail(chunks), seen \cup {key})

\* C32: in parent loading, if at least one neighbor parent was added the
\* final context list is ordered by (doc_order, parent_id) ascending,
\* doc_order being the order in which the documents first appeared in the
\* reranked list; if no neighbor was added the list keeps the reranked
\* order (rerank score descending).
C32_ReadingOrderOrScoreOrder ==
  parent_log.seq = 1 =>
    LET final == parent_log.final
    IN IF NeighborAdded
         THEN \A i \in 1..(Len(final) - 1) :
                \/ appearance(final[i].doc_id) < appearance(final[i + 1].doc_id)
                \/ /\ final[i].doc_id = final[i + 1].doc_id
                   /\ final[i].parent_id < final[i + 1].parent_id
       ELSE /\ [i \in 1..Len(final) |-> <<final[i].doc_id, final[i].parent_id>>]
                 = Take(loadable(parent_log.chunks, {}), load_limit)
            /\ \A i \in 1..(Len(final) - 1) :
                  final[i].score >= final[i + 1].score
\* a neighbor stands between two base entries, the lower-scored one first
C32_Witness ==
  /\ parent_log.seq = 1 /\ NeighborAdded
  /\ Len(parent_log.final) = 3
  /\ parent_log.final[2].is_neighbor
  /\ parent_log.final[1].score < parent_log.final[3].score

\* C33: the contexts returned by parent loading number at most
\* top_k_rerank and contain no two entries with the same (doc_id,
\* parent_id), base entries and neighbor entries taken together; contexts
\* and sources have the same length and correspond index by index.
C33_BoundedDistinctAligned ==
  parent_log.seq = 1 =>
    /\ Len(parent_log.contexts) <= top_k_rerank
    /\ \A i, j \in 1..Len(parent_log.final) :
          (/\ parent_log.final[i].doc_id = parent_log.final[j].doc_id
           /\ parent_log.final[i].parent_id = parent_log.final[j].parent_id)
            => i = j
    /\ Len(parent_log.sources) = Len(parent_log.contexts)
    /\ \A i \in 1..Len(parent_log.contexts) :
          /\ parent_log.contexts[i] = parent_log.final[i].text
          /\ parent_log.sources[i].content = strip(parent_log.contexts[i])
          /\ parent_log.sources[i].document = parent_log.contexts[i][1]
\* two chunks of one parent and a neighbor that is already a base entry
C33_Witness ==
  /\ parent_log.seq = 1
  /\ Len(parent_log.chunks) = 3 /\ Len(parent_log.base) = 2
  /\ Len(parent_log.contexts) = top_k_rerank
  /\ parent_log.base[1].doc_id = parent_log.base[2].doc_id
  /\ parent_log.base[1].parent_id = parent_log.base[2].parent_id + 1
  /\ NeighborAdded

\* ------------------------------------------- properties: background loops
\* C35: the background loops catch and continue at the iteration
\* boundary: an exception raised inside one iteration of the worker loop or
\* of the poller loop does not end the loop, and while running stays true
\* a later iteration is still executed.
C35_LoopsCatchAndContinue ==
  /\ []((worker_loop.running /\ worker_loop.failed) => worker_loop.pc # "none")
  /\ []((poller_loop.running /\ poller_loop.failed) => poller_loop.pc # "none")
  /\ (worker_loop.running /\ worker_loop.failed)
       ~> (~worker_loop.running \/ worker_loop.pc = "await_pass")
  /\ (poller_loop.running /\ poller_loop.failed)
       ~> (~poller_loop.running \/ poller_loop.pc = "await_check")
\* both loops are in a later iteration after an exception
C35_Witness ==
  /\ worker_loop.running /\ worker_loop.errors >= 1
  /\ ~worker_loop.failed /\ worker_loop.pc = "await_pass"
  /\ poller_loop.running /\ poller_loop.errors >= 1
  /\ ~poller_loop.failed /\ poller_loop.pc = "await_check"

\* ------------------------------------------- properties: passes
\* processed = false and (num_chunks >= 0 or num_chunks is null)
PendingSet ==
  {d \in DOMAIN worker_pass.rows :
     /\ ~worker_pass.rows[d].processed
     /\ \/ worker_pass.rows[d].num_chunks = Null
        \/ worker_pass.rows[d].num_chunks[1] >= 0}

\* C36: with the worker running and under fair scheduling, every pending
\* document eventually leaves the pending set with processed = true
\* (after a successful ingest or with the failure sentinel), and every
\* process_documents pass terminates once no pending document remains.
C36_PendingEventuallyProcessed ==
  /\ \A d \in PassDocs :
        (d \in PendingSet)
          ~> (/\ d \notin PendingSet
              /\ d \in DOMAIN worker_pass.rows
              /\ worker_pass.rows[d].processed)
  /\ (PendingSet = {} /\ worker_pass.pc # "sleeping")
        ~> (worker_pass.pc = "sleeping")

\* ------------------------------------------- properties: the event stream
\* the consumer loop of event_generator has been left
LoopLeft == gen_pc \in {"after", "streaming", "closed", "aborted"}

\* step n is on the stream as a thinking event with no chunk, end or error
\* event before it
emitted_before_answer(n) ==
  \E i \in 1..Len(sse) :
    /\ sse[i].type = "thinking" /\ sse[i].step = n
    /\ \A j \in 1..(i - 1) : sse[j].type \notin {"chunk", "end", "error"}

\* C37: no thinking event is lost: for every interleaving of the retrieval
\* thread and the consumer loop, every step passed to on_thinking is
\* emitted as a thinking event before the first chunk, end or error event.
C37_NoThinkingLost ==
  LoopLeft => \A n \in 1..produced : emitted_before_answer(n)

\* the same for the generator of main.py alone, which empties the queue
\* before it leaves the loop
C37_NoThinkingLostMain ==
  (variant = "main" /\ LoopLeft) => \A n \in 1..produced : emitted_before_answer(n)

\* the content of the chunk events of a stream, concatenated in order
RECURSIVE chunk_text(_)
chunk_text(events) ==
  IF events = <<>> THEN <<>>
  ELSE IF Head(events).type = "chunk"
    THEN Head(events).content \o chunk_text(Tail(events))
    ELSE chunk_text(Tail(events))

\* the positions in table messages of the rows written by request r
request_messages(r) == {i \in 1..Len(messages) : messages[i].request = r}

\* the stream of the current request has ended with the end event that
\* follows answer generation
EndedAfterGeneration ==
  /\ gen_pc = "closed"
  /\ sse # <<>>
  /\ sse[Len(sse)].type = "end"
  /\ retrieval_result.contexts > 0

\* C38: for every /query/stream request that ends with an end event after
\* answer generation, exactly one user message and exactly one assistant
\* message are persisted for the request, the user message first, and the
\* content of the end event and of the assistant message both equal the
\* concatenation, in order, of the content of all chunk events emitted.
C38_OneExchangePerAnswer ==
  EndedAfterGeneration =>
    \E u, a \in 1..Len(messages) :
      /\ request_messages(req_count) = {u, a}
      /\ u < a
      /\ messages[u].role = "user" /\ messages[a].role = "assistant"
      /\ messages[a].id = sse[Len(sse)].message_id
      /\ sse[Len(sse)].content = chunk_text(sse)
      /\ messages[a].content = chunk_text(sse)
\* an answer of two different tokens, the second request of the chat
C38_Witness ==
  /\ EndedAfterGeneration
  /\ req_count = 2
  /\ Len(messages) = 4
  /\ sse[Len(sse)].content = <<"a", "b">>

\* ------------------------------------------- properties: sync dedup
\* the rows a step adds
added_rows == DOMAIN documents' \ DOMAIN documents

Deleted(d) == d < next_id /\ d \notin DOMAIN documents

\* the worker sleeps between two passes and no pass is running
WorkerIdle == task_pc = "sleeping" /\ \A t \in Threads : thr[t].pc = "idle"

\* C40: deleting a document cascades to its collection and side-store even
\* when the delete races with the worker: once DELETE /documents/{id} has
\* returned and the worker is idle, no collection doc_<id> and no
\* side-store file for that id exist, for any interleaving of the delete
\* with an ingest of that document.
C40_DeleteCascadesDuringIngest ==
  \A d \in Ids :
    (Deleted(d) /\ WorkerIdle)
      => (d \notin DOMAIN collections /\ d \notin side_store)

====
